---- MODULE Spec2Model ----
(***************************************************************************)
(* A model of lazykamal: the discovery/grouping engine (pkg/docker), the   *)
(* remote executors (pkg/ssh, pkg/kamal) and the two interactive sessions  *)
(* (project mode GUI, server mode ServerGUI) with their execution          *)
(* supervisor state.                                                       *)
(*                                                                         *)
(* Strings that the code splits, joins or compares are sequences of        *)
(* one-character strings, so that strings.Split and strings.Join are       *)
(* computed rather than assumed.                                           *)
(***************************************************************************)
EXTENDS Integers, Sequences, FiniteSets, Bags, TLC

VARIABLES
    \* ---- discovery (pkg/docker/discover.go)
    dpc,            \* position of one discovery pass
    containers,     \* []Container handed to groupContainers
    apps,           \* []App (result of discovery; ServerGUI.apps)
    detService,     \* detectBaseApp argument: service
    detAll,         \* detectBaseApp argument: allServices
    detResult,      \* detectBaseApp result, or NoResult
    \* ---- interactive session (pkg/gui)
    gui,            \* the GUI / ServerGUI object, its goroutines and channels
    \* ---- remote executors (pkg/ssh, pkg/kamal)
    call            \* one invocation of an executor, its process and channels

discVars == <<dpc, containers, apps, detService, detAll, detResult>>

vars == <<dpc, containers, apps, detService, detAll, detResult, gui, call>>

NIL == "nil"
\* the session of a run that only exercises discovery
NoSession == [mode |-> "none"]
\* the executor call of a run that invokes none
NoCall == [fn |-> "none"]
NoResult == [baseApp |-> <<>>, accessoryType |-> <<>>]

\* ------------------------------------------------------------------------
\* Bounds
\* ------------------------------------------------------------------------
MaxContainers == 3

\* ------------------------------------------------------------------------
\* Strings
\* ------------------------------------------------------------------------
Hyphen == "-"
EmptyStr == <<>>
StrA == <<"a">>
StrB == <<"b">>
StrAB == <<"a", "-", "b">>
StrABC == <<"a", "-", "b", "-", "c">>
StrBC == <<"b", "-", "c">>
Web == <<"w", "e", "b">>
Production == <<"p", "r", "o", "d", "u", "c", "t", "i", "o", "n">>
Staging == <<"s", "t", "g">>

\* byte order of the characters used ('-' sorts before every letter)
CharOrd(c) ==
    CASE c = "-" -> 45
      [] c = "a" -> 97
      [] c = "b" -> 98
      [] c = "c" -> 99
      [] c = "d" -> 100
      [] c = "e" -> 101
      [] c = "g" -> 103
      [] c = "i" -> 105
      [] c = "n" -> 110
      [] c = "o" -> 111
      [] c = "p" -> 112
      [] c = "r" -> 114
      [] c = "s" -> 115
      [] c = "t" -> 116
      [] c = "u" -> 117
      [] c = "w" -> 119
      [] OTHER -> 0

\* Go's < on strings: lexicographic by byte
RECURSIVE StrLess(_, _)
StrLess(s, t) ==
    IF t = <<>> THEN FALSE
    ELSE IF s = <<>> THEN TRUE
    ELSE IF CharOrd(Head(s)) < CharOrd(Head(t)) THEN TRUE
    ELSE IF CharOrd(Head(s)) > CharOrd(Head(t)) THEN FALSE
    ELSE StrLess(Tail(s), Tail(t))

\* strings.Split(s, "-"): the substrings between hyphens (always >= 1 part)
RECURSIVE SplitFrom(_, _, _)
SplitFrom(s, i, cur) ==
    IF i > Len(s) THEN <<cur>>
    ELSE IF s[i] = Hyphen THEN <<cur>> \o SplitFrom(s, i + 1, <<>>)
    ELSE SplitFrom(s, i + 1, Append(cur, s[i]))

Split(s) == SplitFrom(s, 1, <<>>)

\* strings.Join(parts, "-")
RECURSIVE Join(_)
Join(parts) ==
    IF Len(parts) = 0 THEN <<>>
    ELSE IF Len(parts) = 1 THEN parts[1]
    ELSE parts[1] \o <<Hyphen>> \o Join(Tail(parts))

\* ------------------------------------------------------------------------
\* detectBaseApp
\* ------------------------------------------------------------------------
\* for i := len(parts)-1; i > 0; i-- : first i whose prefix is a service
RECURSIVE DetectFrom(_, _, _, _)
DetectFrom(service, parts, i, allServices) ==
    IF i <= 0 THEN [baseApp |-> service, accessoryType |-> EmptyStr]
    ELSE IF Join(SubSeq(parts, 1, i)) \in allServices
         THEN [baseApp |-> Join(SubSeq(parts, 1, i)),
               accessoryType |-> Join(SubSeq(parts, i + 1, Len(parts)))]
         ELSE DetectFrom(service, parts, i - 1, allServices)

\* the loop run from the shortest prefix upwards
RECURSIVE DetectUp(_, _, _, _)
DetectUp(service, parts, i, allServices) ==
    IF i >= Len(parts) THEN [baseApp |-> service, accessoryType |-> EmptyStr]
    ELSE IF Join(SubSeq(parts, 1, i)) \in allServices
         THEN [baseApp |-> Join(SubSeq(parts, 1, i)),
               accessoryType |-> Join(SubSeq(parts, i + 1, Len(parts)))]
         ELSE DetectUp(service, parts, i + 1, allServices)

detectBaseAppShortestFirst(service, allServices) ==
    DetectUp(service, Split(service), 1, allServices)

detectBaseApp(service, allServices) ==
    DetectFrom(service, Split(service), Len(Split(service)) - 1, allServices)

\* ------------------------------------------------------------------------
\* groupContainers
\* ------------------------------------------------------------------------
\* a Container, reduced to its identity and the three labels grouping reads;
\* a missing label reads as the empty string (Go map lookup)
Container(id, service, destination, role) ==
    [ID |-> id, service |-> service, destination |-> destination, role |-> role,
     State |-> "running"]

\* first pass: collect all service names
AllServicesOf(cs) ==
    {cs[i].service : i \in {j \in 1..Len(cs) : cs[j].service # EmptyStr}}

\* the app looked up by service alone
AppIndexAnyDestination(m, baseApp, destination) ==
    IF \E i \in 1..Len(m) : m[i].Service = baseApp
    THEN CHOOSE i \in 1..Len(m) : m[i].Service = baseApp
    ELSE 0

\* index of the app for (baseApp, destination) in the map, 0 when absent
AppIndex(m, baseApp, destination) ==
    IF \E i \in 1..Len(m) : m[i].Service = baseApp /\ m[i].Destination = destination
    THEN CHOOSE i \in 1..Len(m) : m[i].Service = baseApp /\ m[i].Destination = destination
    ELSE 0

\* a lookup that never finds the accessory
AccIndexNotFound(accs, role) == 0

\* index of the first accessory named role, 0 when absent
AccIndex(accs, role) ==
    IF \E i \in 1..Len(accs) : accs[i].Name = role
    THEN CHOOSE i \in 1..Len(accs) :
             accs[i].Name = role /\ \A j \in 1..(i - 1) : accs[j].Name # role
    ELSE 0

\* a record of an accessory filed among the primary records as well
CategorizeAlsoPrimary(app, role, c) ==
    LET filed == [app EXCEPT !.Containers = Append(@, c)]
    IN IF role = EmptyStr \/ role = Web THEN filed
       ELSE IF AccIndex(app.Accessories, role) # 0
            THEN [filed EXCEPT !.Accessories[AccIndex(app.Accessories, role)].Containers =
                                   Append(@, c)]
            ELSE [filed EXCEPT !.Accessories =
                                   Append(@, [Name |-> role, Containers |-> <<c>>])]

\* every record filed as a primary record, whatever its role
CategorizePrimaryOnly(app, role, c) ==
    [app EXCEPT !.Containers = Append(@, c)]

\* "Categorize by role"
Categorize(app, role, c) ==
    IF role = EmptyStr \/ role = Web
    THEN [app EXCEPT !.Containers = Append(@, c)]
    ELSE IF AccIndex(app.Accessories, role) # 0
         THEN [app EXCEPT !.Accessories[AccIndex(app.Accessories, role)].Containers =
                               Append(@, c)]
         ELSE [app EXCEPT !.Accessories =
                               Append(@, [Name |-> role, Containers |-> <<c>>])]

EffectiveDestination(c) ==
    IF c.destination = EmptyStr THEN Production ELSE c.destination

\* the detected accessory type, whatever the role label says
EffectiveRoleDetected(c, allServices) ==
    detectBaseApp(c.service, allServices).accessoryType

EffectiveRole(c, allServices) ==
    IF c.role = EmptyStr THEN detectBaseApp(c.service, allServices).accessoryType
    ELSE c.role

\* the iteration with the base taken as the part before the first hyphen,
\* whether or not it is a service
GroupOneFirstPart(m, c, allServices) ==
    IF c.service = EmptyStr THEN m
    ELSE LET base == Split(c.service)[1]
             dest == EffectiveDestination(c)
             m1 == IF AppIndex(m, base, dest) = 0
                   THEN Append(m, [Service |-> base, Destination |-> dest,
                                   Containers |-> <<>>, Accessories |-> <<>>,
                                   ProxyStatus |-> EmptyStr])
                   ELSE m
             k == AppIndex(m1, base, dest)
         IN [m1 EXCEPT ![k] = Categorize(m1[k], EffectiveRole(c, allServices), c)]

\* one iteration of the second loop; m is appMap as a sequence of apps
GroupOne(m, c, allServices) ==
    IF c.service = EmptyStr THEN m
    ELSE LET base == detectBaseApp(c.service, allServices).baseApp
             dest == EffectiveDestination(c)
             m1 == IF AppIndex(m, base, dest) = 0
                   THEN Append(m, [Service |-> base, Destination |-> dest,
                                   Containers |-> <<>>, Accessories |-> <<>>,
                                   ProxyStatus |-> EmptyStr])
                   ELSE m
             k == AppIndex(m1, base, dest)
         IN [m1 EXCEPT ![k] = Categorize(m1[k], EffectiveRole(c, allServices), c)]

RECURSIVE GroupLoop(_, _, _, _)
GroupLoop(m, cs, i, allServices) ==
    IF i > Len(cs) THEN m
    ELSE GroupLoop(GroupOne(m, cs[i], allServices), cs, i + 1, allServices)

\* the apps of appMap, before the map is flattened in iteration order
groupContainers(cs) == GroupLoop(<<>>, cs, 1, AllServicesOf(cs))

\* every order in which ranging over the Go maps can flatten the apps
Orderings(m) ==
    {[i \in 1..Len(m) |-> m[p[i]]] :
        p \in {q \in [1..Len(m) -> 1..Len(m)] :
                  \A i, j \in 1..Len(m) : i # j => q[i] # q[j]}}

\* sort.Slice less function of DiscoverApps
AppLess(x, y) ==
    IF x.Service = y.Service THEN StrLess(x.Destination, y.Destination)
    ELSE StrLess(x.Service, y.Service)

\* the sorted result: the ordering with no adjacent inversion
SortApps(m) ==
    CHOOSE o \in Orderings(m) : \A i \in 1..(Len(o) - 1) : ~AppLess(o[i + 1], o[i])

StampProxy(m, status) == [i \in 1..Len(m) |-> [m[i] EXCEPT !.ProxyStatus = status]]

ProxyStatuses == {<<"r">>, <<"n">>}

\* ------------------------------------------------------------------------
\* Inputs of the discovery specifications
\* ------------------------------------------------------------------------
StrACD == <<"a", "-", "c", "-", "d">>
StrATrail == <<"a", "-">>
StrALead == <<"-", "a">>

DetectPool == {StrA, StrB, StrAB, StrABC, StrBC, StrACD, StrATrail, StrALead}

GroupServices == {EmptyStr, StrA, StrAB, StrABC}
GroupDestinations == {EmptyStr, Staging}
GroupRoles == {EmptyStr, Web, StrB}

\* ------------------------------------------------------------------------
\* Specification of detectBaseApp alone
\* ------------------------------------------------------------------------
InitDetect ==
    /\ dpc = "detect"
    /\ detAll \in (SUBSET DetectPool) \ {{}}
    /\ detService \in detAll
    /\ detResult = NoResult
    /\ containers = <<>>
    /\ apps = <<>>
    /\ gui = NoSession
    /\ call = NoCall

DetectCall ==
    /\ dpc = "detect"
    /\ detResult' = detectBaseApp(detService, detAll)
    /\ dpc' = "detected"
    /\ UNCHANGED <<containers, apps, detService, detAll, gui, call>>

NextDetect == DetectCall

SpecDetect == InitDetect /\ [][NextDetect]_vars

\* ------------------------------------------------------------------------
\* Specification of one discovery pass over parsed containers
\* ------------------------------------------------------------------------
InitGroup ==
    /\ dpc = "parsing"
    /\ containers = <<>>
    /\ apps = <<>>
    /\ detService = EmptyStr
    /\ detAll = {}
    /\ detResult = NoResult
    /\ gui = NoSession
    /\ call = NoCall

\* one more record of the listing is appended to the parsed containers
ParseOne ==
    /\ dpc = "parsing"
    /\ Len(containers) < MaxContainers
    /\ \E sv \in GroupServices, ds \in GroupDestinations, rl \in GroupRoles :
           containers' = Append(containers, Container(Len(containers) + 1, sv, ds, rl))
    /\ UNCHANGED <<dpc, apps, detService, detAll, detResult, gui, call>>

\* apps := groupContainers(containers)
GroupStep ==
    /\ dpc = "parsing"
    /\ apps' \in Orderings(groupContainers(containers))
    /\ dpc' = "grouped"
    /\ UNCHANGED <<containers, detService, detAll, detResult, gui, call>>

\* proxy status stamped on every app, then sort.Slice
SortStep ==
    /\ dpc = "grouped"
    /\ \E st \in ProxyStatuses : apps' = SortApps(StampProxy(apps, st))
    /\ dpc' = "discovered"
    /\ UNCHANGED <<containers, detService, detAll, detResult, gui, call>>

NextGroup == ParseOne \/ GroupStep \/ SortStep

SpecGroup == InitGroup /\ [][NextGroup]_vars

\* ------------------------------------------------------------------------
\* Properties of discovery
\* ------------------------------------------------------------------------
\* all records stored under an app: primaries and accessory members
RecordsOf(app) ==
    {app.Containers[i] : i \in 1..Len(app.Containers)} \cup
    UNION {{app.Accessories[k].Containers[i] :
               i \in 1..Len(app.Accessories[k].Containers)} :
           k \in 1..Len(app.Accessories)}

Grouped == dpc \in {"grouped", "discovered"}

\* the proper prefixes of s that end right before a hyphen
HyphenPrefixes(s) == {SubSeq(s, 1, k) : k \in {j \in 0..(Len(s) - 1) : s[j + 1] = Hyphen}}

Longest(ps) == CHOOSE p \in ps : \A q \in ps : Len(q) <= Len(p)

\* the base service of a service label, stated on characters
BaseOf(s, allServices) ==
    IF HyphenPrefixes(s) \cap allServices = {} THEN s
    ELSE Longest(HyphenPrefixes(s) \cap allServices)

\* C1 (as claimed): every record stored under an Application, primary or in
\* an Accessory, has a service label equal to the Application's service name
\* and a destination label equal to the Application's destination name.
C1_Original ==
    Grouped =>
        \A i \in 1..Len(apps) : \A c \in RecordsOf(apps[i]) :
            c.service = apps[i].Service /\ c.destination = apps[i].Destination

\* C1 (amended): every record stored under an Application has that
\* Application's service name as the base service of its service label (the
\* label itself, or its longest proper hyphen-prefix that is a service), and
\* its destination label, read as "production" when absent, is the
\* Application's destination name.
C1_Grouping ==
    Grouped =>
        \A i \in 1..Len(apps) : \A c \in RecordsOf(apps[i]) :
            /\ BaseOf(c.service, AllServicesOf(containers)) = apps[i].Service
            /\ (IF c.destination = EmptyStr THEN Production ELSE c.destination)
                   = apps[i].Destination

C1_Witness ==
    /\ dpc = "discovered"
    /\ \E i \in 1..Len(apps) :
          /\ Len(apps[i].Containers) > 0
          /\ Len(apps[i].Accessories) > 0
          /\ \E c \in RecordsOf(apps[i]) :
                c.service # apps[i].Service /\ c.destination = EmptyStr
    /\ \E i, j \in 1..Len(apps) : apps[i].Destination # apps[j].Destination

\* C2: detectBaseApp returns as base the longest proper hyphen-delimited
\* prefix of the service that is a member of allServices, and as accessory
\* name the rest of the service after that prefix and its hyphen; with
\* {a, a-b, a-b-c}, a-b-c goes under a-b, and with {a, a-b, a-c-d}, a-c-d
\* goes under a with accessory name c-d.
C2_LongestPrefix ==
    dpc = "detected" =>
        /\ HyphenPrefixes(detService) \cap detAll # {} =>
              /\ detResult.baseApp = Longest(HyphenPrefixes(detService) \cap detAll)
              /\ detResult.baseApp \o <<Hyphen>> \o detResult.accessoryType = detService
        /\ (detAll = {StrA, StrAB, StrABC} /\ detService = StrABC) =>
              detResult = [baseApp |-> StrAB, accessoryType |-> <<"c">>]
        /\ (detAll = {StrA, StrAB, StrACD} /\ detService = StrACD) =>
              detResult = [baseApp |-> StrA, accessoryType |-> <<"c", "-", "d">>]
        /\ (detAll = {StrA, StrAB, StrACD} /\ detService = StrAB) =>
              detResult = [baseApp |-> StrA, accessoryType |-> StrB]

C2_Witness ==
    /\ dpc = "detected"
    /\ Cardinality(HyphenPrefixes(detService) \cap detAll) >= 2
    /\ detResult.baseApp = StrAB

\* the role of a record, stated on characters: its role label, or without
\* one what follows the base service and its hyphen in the service label
RoleOf(c, allServices) ==
    IF c.role # EmptyStr THEN c.role
    ELSE LET base == BaseOf(c.service, allServices)
         IN IF base = c.service THEN EmptyStr
            ELSE SubSeq(c.service, Len(base) + 2, Len(c.service))

\* the parsed records that carry a service label
Managed == {containers[i] : i \in {j \in 1..Len(containers) : containers[j].service # EmptyStr}}

\* the Applications of the result that a record belongs under
HomesOf(c) ==
    {i \in 1..Len(apps) :
        /\ apps[i].Service = BaseOf(c.service, AllServicesOf(containers))
        /\ apps[i].Destination = (IF c.destination = EmptyStr THEN Production
                                  ELSE c.destination)}

MembersOf(acc) == {acc.Containers[i] : i \in 1..Len(acc.Containers)}

\* the places of the result that hold the record c: <<i, 0, n>> is the n-th
\* primary record of app i, <<i, k, n>> the n-th member of its k-th Accessory
PlacesOf(c) ==
    {p \in (1..Len(apps)) \X {0} \X (1..MaxContainers) :
        p[3] <= Len(apps[p[1]].Containers) /\ apps[p[1]].Containers[p[3]] = c}
    \cup
    {p \in (1..Len(apps)) \X (1..MaxContainers) \X (1..MaxContainers) :
        /\ p[2] <= Len(apps[p[1]].Accessories)
        /\ p[3] <= Len(apps[p[1]].Accessories[p[2]].Containers)
        /\ apps[p[1]].Accessories[p[2]].Containers[p[3]] = c}

\* C40: in a discovery result every parsed record with a service label is
\* held at exactly one place (a primary record of one Application or a
\* member of one Accessory of one Application), and every record held
\* anywhere is a parsed record with a service label.
C40_NeitherLostNorDuplicated ==
    Grouped =>
        /\ \A c \in Managed : Cardinality(PlacesOf(c)) = 1
        /\ \A i \in 1..Len(apps) : RecordsOf(apps[i]) \subseteq Managed

\* a result for a listing with an unlabelled record, a primary record and
\* an Accessory member
C40_Witness ==
    /\ dpc = "discovered"
    /\ \E j \in 1..Len(containers) : containers[j].service = EmptyStr
    /\ \E i \in 1..Len(apps) : apps[i].Containers # <<>> /\ apps[i].Accessories # <<>>

\* C19: in a discovery result no Application has two Accessories of the same
\* name, and two records of the same base service and destination whose
\* roles are the same non-primary name are members of one Accessory.
C19_OneAccessoryPerName ==
    Grouped =>
        /\ \A i \in 1..Len(apps) : \A k, l \in 1..Len(apps[i].Accessories) :
              k # l => apps[i].Accessories[k].Name # apps[i].Accessories[l].Name
        /\ \A c, d \in Managed :
              (/\ HomesOf(c) = HomesOf(d)
               /\ RoleOf(c, AllServicesOf(containers)) = RoleOf(d, AllServicesOf(containers))
               /\ RoleOf(c, AllServicesOf(containers)) \notin {EmptyStr, Web})
                 => \E i \in HomesOf(c) : \E k \in 1..Len(apps[i].Accessories) :
                       {c, d} \subseteq MembersOf(apps[i].Accessories[k])

\* an Accessory that merged a record with a role label and a record whose
\* name was derived from its service
C19_Witness ==
    /\ dpc = "discovered"
    /\ \E i \in 1..Len(apps) : \E k \in 1..Len(apps[i].Accessories) :
          \E c, d \in MembersOf(apps[i].Accessories[k]) :
              c.role = EmptyStr /\ d.role # EmptyStr /\ c.service # d.service

\* C20: a record with a service label is stored under exactly one
\* Application, the one of its base service and destination; there it is a
\* primary record, and in no Accessory, exactly when its role (the label, or
\* without one the derived accessory name) is empty or "web", and otherwise
\* it is in the Accessory named by its role and in no other place.
C20_RoleDecidesPlace ==
    Grouped =>
        \A c \in Managed :
            LET role == RoleOf(c, AllServicesOf(containers))
            IN /\ Cardinality(HomesOf(c)) = 1
               /\ \A i \in 1..Len(apps) :
                     LET prim == c \in {apps[i].Containers[n] : n \in 1..Len(apps[i].Containers)}
                         accs == {k \in 1..Len(apps[i].Accessories) :
                                     c \in MembersOf(apps[i].Accessories[k])}
                     IN IF i \notin HomesOf(c) THEN ~prim /\ accs = {}
                        ELSE IF role \in {EmptyStr, Web} THEN prim /\ accs = {}
                        ELSE /\ ~prim
                             /\ Cardinality(accs) = 1
                             /\ \A k \in accs : apps[i].Accessories[k].Name = role

\* a result with a record made an accessory by its role label alone, one
\* made primary by the label "web" although its service is an accessory's,
\* and one placed by the derived name
C20_Witness ==
    /\ dpc = "discovered"
    /\ \E c \in Managed :
          c.role \notin {EmptyStr, Web} /\ BaseOf(c.service, AllServicesOf(containers)) = c.service
    /\ \E c \in Managed :
          c.role = Web /\ BaseOf(c.service, AllServicesOf(containers)) # c.service
    /\ \E c \in Managed :
          c.role = EmptyStr /\ BaseOf(c.service, AllServicesOf(containers)) # c.service

\* the records of a service with hyphens in its name none of whose proper
\* hyphen-prefixes is a service
Standalone ==
    {c \in Managed :
        /\ \E n \in 1..Len(c.service) : c.service[n] = Hyphen
        /\ HyphenPrefixes(c.service) \cap AllServicesOf(containers) = {}}

\* C21 (as claimed): a service with hyphens none of whose proper
\* hyphen-prefixes is a service becomes its own Application, named by the
\* full service name, and that Application has no accessories.
C21_Original ==
    Grouped =>
        \A c \in Standalone :
            \E i \in 1..Len(apps) :
                /\ apps[i].Service = c.service
                /\ apps[i].Destination = (IF c.destination = EmptyStr THEN Production
                                          ELSE c.destination)
                /\ apps[i].Accessories = <<>>

\* C21 (amended): such a service becomes its own Application, named by the
\* full service name; its records are primary records there unless they
\* carry a role label other than "web", and the Application's accessories
\* hold only records with such a role label or records of other services.
C21_StandaloneService ==
    Grouped =>
        \A c \in Standalone :
            \E i \in 1..Len(apps) :
                /\ apps[i].Service = c.service
                /\ apps[i].Destination = (IF c.destination = EmptyStr THEN Production
                                          ELSE c.destination)
                /\ c.role \in {EmptyStr, Web} =>
                      c \in {apps[i].Containers[n] : n \in 1..Len(apps[i].Containers)}
                /\ \A k \in 1..Len(apps[i].Accessories) :
                      \A d \in MembersOf(apps[i].Accessories[k]) :
                          d.role \notin {EmptyStr, Web} \/ d.service # c.service

\* a result where the service a-b has no service a above it, is an
\* Application of its own with its record as primary, and has no accessories
C21_Witness ==
    /\ dpc = "discovered"
    /\ \E c \in Standalone : \E i \in 1..Len(apps) :
          /\ c.role = EmptyStr
          /\ apps[i].Service = c.service
          /\ apps[i].Accessories = <<>>
          /\ c \in {apps[i].Containers[n] : n \in 1..Len(apps[i].Containers)}

\* ------------------------------------------------------------------------
\* A pass over records of the services web and web-postgres
\* ------------------------------------------------------------------------
Postgres == <<"p", "o", "s", "t", "g", "r", "e", "s">>
WebPostgres == Web \o <<Hyphen>> \o Postgres

\* one more record of web or web-postgres, its destination label
\* "production" or absent
ParseWebRecord ==
    /\ dpc = "parsing"
    /\ Len(containers) < MaxContainers
    /\ \E sv \in {Web, WebPostgres}, ds \in {EmptyStr, Production} :
           containers' = Append(containers, Container(Len(containers) + 1, sv, ds, EmptyStr))
    /\ UNCHANGED <<dpc, apps, detService, detAll, detResult, gui, call>>

NextWeb == ParseWebRecord \/ GroupStep \/ SortStep

SpecWeb == InitGroup /\ [][NextWeb]_vars

\* two records of web and one of web-postgres, in any order
TwoWebOnePostgres ==
    /\ Len(containers) = 3
    /\ Cardinality({i \in 1..3 : containers[i].service = Web}) = 2
    /\ Cardinality({i \in 1..3 : containers[i].service = WebPostgres}) = 1

\* C23: two records of service web and one of web-postgres, all of
\* destination production, give exactly one Application, web/production,
\* with two primary records and exactly one Accessory, postgres, with one
\* record; web-postgres is no Application.
C23_WebWithPostgres ==
    (Grouped /\ TwoWebOnePostgres) =>
        /\ Len(apps) = 1
        /\ apps[1].Service = Web
        /\ apps[1].Destination = Production
        /\ Len(apps[1].Containers) = 2
        /\ \A n \in 1..2 : apps[1].Containers[n].service = Web
        /\ Len(apps[1].Accessories) = 1
        /\ apps[1].Accessories[1].Name = Postgres
        /\ Len(apps[1].Accessories[1].Containers) = 1
        /\ apps[1].Accessories[1].Containers[1].service = WebPostgres

\* the result of such a pass with the web-postgres record listed first
C23_Witness ==
    /\ dpc = "discovered"
    /\ TwoWebOnePostgres
    /\ containers[1].service = WebPostgres
    /\ Len(apps) = 1

\* ========================================================================
\* The interactive session
\* ========================================================================
\* One session, server mode (ServerGUI) or project mode (GUI), from its
\* constructor until the operator quits: 'q' and Ctrl+C end the process. The
\* scroll position of the log pane (logScroll, the keys 'j' and 'k') and the
\* spinner are display state that no handler branches on; they are left out.
\* Bounds of the session model
MaxWorkers == 2     \* blocking workers alive at once
MaxStreams == 1     \* stream goroutines alive at once
LogCap == 0         \* lines the log buffer keeps (1000 and 3000 in the code)

\* A channel field holds NilChan, or a channel that is "open" or "closed".
\* A stream goroutine holds its stop channel: "open" or "closed", or "field"
\* while that channel is the one gui.liveLogsStop still refers to.
NilChan == "nil"
ServerMode(g) == g.mode = "server"
Named == "name"
\* OpenedOn is not a field of confirmState: it records the screen that was
\* current when showConfirm made the dialog
ConfirmNil == [nil |-> TRUE, OnYes |-> "none", OnNo |-> "none", Selected |-> 0,
               OpenedOn |-> "none"]
EditorNil == [nil |-> TRUE, PrevScreen |-> "Apps", Dirty |-> FALSE, ConfirmQuit |-> FALSE,
              InConfig |-> FALSE]

\* ---- discovery results a server session can hold
\* DiscoverApps finds nothing, or an app a with an exited container and an
\* accessory a-b, and an app b-c
AppLists ==
    {<<>>,
     SortApps(StampProxy(groupContainers(
         <<[Container(1, StrA, EmptyStr, EmptyStr) EXCEPT !.State = "exited"],
           Container(2, StrAB, EmptyStr, EmptyStr),
           Container(3, StrBC, EmptyStr, StrB)>>), <<"r">>))}

\* ---- the log buffer
\* a trim that keeps the oldest lines of an overfull buffer
AppendTrimOldest(buf, lines, cap) ==
    LET all == buf \o lines
    IN IF Len(all) > cap THEN SubSeq(all, 1, cap) ELSE all

\* append every line, then if len > cap: logLines = logLines[len-cap:]
AppendTrim(buf, lines, cap) ==
    LET all == buf \o lines
    IN IF Len(all) > cap THEN SubSeq(all, Len(all) - cap + 1, Len(all)) ELSE all

\* appendLog (both modes) in the session, which keeps the last LogCap lines
appendLog(g, lines) == [g EXCEPT !.logLines = AppendTrim(@, lines, LogCap)]

logInfo(g) == appendLog(g, <<"info">>)
logError(g) == appendLog(g, <<"error">>)
logSuccess(g) == appendLog(g, <<"success">>)

\* ---- channels and goroutines
\* close(gui.liveLogsStop): closing a nil or a closed channel panics
CloseLiveLogsStop(g) ==
    IF g.liveLogsStop # "open" THEN [g EXCEPT !.panicked = TRUE]
    ELSE [g EXCEPT !.liveLogsStop = "closed"]

\* the state of the stop channel a stream goroutine holds
StopCh(g, st) == IF st.stop = "field" THEN g.liveLogsStop ELSE st.stop

\* gui.liveLogsStop is about to be overwritten: the goroutine that shares the
\* channel keeps it
Detach(g) ==
    LET held == {st \in BagToSet(g.streams) : st.stop = "field"}
    IN IF held = {} THEN g
       ELSE LET st == CHOOSE x \in held : TRUE
            IN [g EXCEPT !.streams = (@ (-) SetToBag({st}))
                                      (+) SetToBag({[st EXCEPT !.stop = g.liveLogsStop]})]

\* go func() { ... }() of a blocking operation
Launch(g, kind) ==
    [g EXCEPT !.workers = @ (+) SetToBag({[kind |-> kind, pc |-> "run"]})]

\* make(chan struct{}) stored in liveLogsStop, and the stream goroutine on it
LaunchStream(g, pc) ==
    [Detach(g) EXCEPT !.liveLogsStop = "open",
                      !.streams = @ (+) SetToBag({[pc |-> pc, stop |-> "field"]})]

\* ---- confirmation dialog (confirm.go, server_confirm.go)
\* GUI.showConfirm leaves prevScreen alone, ServerGUI.showConfirm records it
showConfirm(g, onYes, onNo) ==
    [g EXCEPT !.confirm = [nil |-> FALSE, OnYes |-> onYes, OnNo |-> onNo,
                           Selected |-> 1, OpenedOn |-> g.screen],
              !.prevScreen = IF g.mode = "server" THEN g.screen ELSE @,
              !.screen = "Confirm"]

\* a close that goes to the list of apps
closeConfirmToApps(g) ==
    [g EXCEPT !.confirm = ConfirmNil, !.screen = "Apps", !.currentView = "main"]

closeConfirm(g) ==
    [g EXCEPT !.confirm = ConfirmNil, !.screen = g.prevScreen, !.currentView = "main"]

confirmLeft(g) ==
    IF ~g.confirm.nil /\ g.confirm.Selected > 0
    THEN [g EXCEPT !.confirm.Selected = @ - 1] ELSE g

confirmRight(g) ==
    IF ~g.confirm.nil /\ g.confirm.Selected < 1
    THEN [g EXCEPT !.confirm.Selected = @ + 1] ELSE g

\* ---- server mode: the execution supervisor
\* logInfo; running = true, runningCmd = the name of the operation under cmdMu;
\* go worker. The names ("Restart", "Proxy Stop", ...) are all modelled by Named.
ServerRun(g, kind) ==
    Launch([logInfo(g) EXCEPT !.running = TRUE, !.runningCmd = Named], kind)

\* GUI.runCommand: running, runningCmd, the spinner, logInfo, then the worker
\* goroutine
runCommand(g) ==
    Launch(logInfo([g EXCEPT !.running = TRUE, !.runningCmd = Named]), "cmd")

\* logInfo; go worker that never touches the running flag
ServerAux(g) == Launch(logInfo(g), "aux")

\* cancelCommand: cmdStopCh is assigned nowhere in the package
cancelCommand(g) ==
    IF g.running /\ g.cmdStopCh # NilChan
    THEN LET closed == [g EXCEPT !.panicked = @ \/ g.cmdStopCh # "open",
                                 !.cmdStopCh = NilChan]
         IN IF g.runningCmd # "" THEN logInfo(closed) ELSE closed
    ELSE g

\* a stop that closes the channel whatever the streaming flag says
stopLogStreamUnguarded(g) ==
    [Detach(CloseLiveLogsStop(g)) EXCEPT !.liveLogsStop = NilChan, !.streamingLogs = FALSE]

stopLogStream(g) ==
    IF g.streamingLogs /\ g.liveLogsStop # NilChan
    THEN [Detach(CloseLiveLogsStop(g)) EXCEPT !.liveLogsStop = NilChan,
                                              !.streamingLogs = FALSE]
    ELSE g

\* viewContainerLogs: stop any stream, logInfo, then streamingLogs and a fresh
\* liveLogsStop under streamMu, then the stream goroutine
viewContainerLogs(g) ==
    [LaunchStream(logInfo(stopLogStream(g)), "stream") EXCEPT !.streamingLogs = TRUE]

\* viewProxyLogs: the same, its goroutine first looks the proxy container up
viewProxyLogs(g) ==
    [LaunchStream(logInfo(stopLogStream(g)), "lookup") EXCEPT !.streamingLogs = TRUE]

SelectedAppInRange(g) == g.selectedApp < Len(g.apps)
SelectedApp(g) == g.apps[g.selectedApp + 1]

AllOf(app) ==
    app.Containers \o
    (LET RECURSIVE Cat(_)
         Cat(k) == IF k > Len(app.Accessories) THEN <<>>
                   ELSE app.Accessories[k].Containers \o Cat(k + 1)
     IN Cat(1))

buildContainerList(g) ==
    IF ~SelectedAppInRange(g) THEN g
    ELSE LET app == SelectedApp(g)
             RECURSIVE Accs(_)
             Accs(k) ==
                 IF k > Len(app.Accessories) THEN <<>>
                 ELSE [i \in 1..Len(app.Accessories[k].Containers) |->
                          [Container |-> app.Accessories[k].Containers[i],
                           Role |-> app.Accessories[k].Name]] \o Accs(k + 1)
         IN [g EXCEPT !.allContainers =
                [i \in 1..Len(app.Containers) |->
                    [Container |-> app.Containers[i], Role |-> Web]] \o Accs(1)]

\* the operations of the menus that do more than ServerRun, ServerAux or
\* showConfirm
startApp(g) ==
    IF Len(SelectedApp(g).Containers) = 0 THEN logError(g) ELSE ServerRun(g, "cmd")
restartApp(g) ==
    IF Len(SelectedApp(g).Containers) = 0 THEN logError(g) ELSE ServerRun(g, "cmd")
stopApp(g) ==
    IF Len(SelectedApp(g).Containers) = 0 THEN logError(g) ELSE showConfirm(g, "stopApp", "none")
removeStoppedContainers(g) == ServerRun(g, "rmStopped")
showAppVersion(g) ==
    appendLog(appendLog(logInfo(g), <<"out", "out", "out">>),
              IF Len(SelectedApp(g).Containers) > 0 THEN <<"out">> ELSE <<>>)
viewAppLogs(g) ==
    IF Len(AllOf(SelectedApp(g))) = 0 THEN logError(g) ELSE ServerAux(g)
execShell(g) ==
    IF Len(SelectedApp(g).Containers) = 0 THEN logError(g)
    ELSE Launch(logInfo(logInfo(g)), "aux")

\* the accept continuation of a dialog: the operation of the server menus
\* that asked (the goroutine of stopApp, proxyStop, stopContainer,
\* removeContainer), runCommand in project mode
OnYes(g, onYes) ==
    IF ~ServerMode(g) THEN runCommand(g)
    ELSE CASE onYes \in {"stopApp", "proxyStop", "stopContainer"} -> ServerRun(g, "cmd")
           [] onYes = "removeContainer" -> ServerRun(g, "rmOne")
           [] OTHER -> g

executeAppMenuAction(g) ==
    IF ~SelectedAppInRange(g) THEN g
    ELSE CASE g.selectedItem = 0 ->
                  buildContainerList([g EXCEPT !.screen = "ContainerSelect",
                                               !.selectedContainer = 0])
           [] g.selectedItem = 1 -> viewAppLogs(g)
           [] g.selectedItem = 2 -> ServerAux(g)                \* showAppDetails
           [] g.selectedItem = 3 -> [g EXCEPT !.screen = "ActionsMenu", !.selectedItem = 0]
           [] g.selectedItem = 4 -> [g EXCEPT !.screen = "ProxyMenu", !.selectedItem = 0]
           [] g.selectedItem = 5 -> execShell(g)
           [] g.selectedItem = 6 -> [g EXCEPT !.screen = "Apps", !.selectedItem = 0]
           [] OTHER -> g

executeActionsMenuAction(g) ==
    IF ~SelectedAppInRange(g) THEN g
    ELSE CASE g.selectedItem = 0 -> ServerRun(g, "cmd")        \* rebootApp
           [] g.selectedItem = 1 -> startApp(g)
           [] g.selectedItem = 2 -> stopApp(g)
           [] g.selectedItem = 3 -> restartApp(g)
           [] g.selectedItem = 4 -> removeStoppedContainers(g)
           [] g.selectedItem = 5 -> ServerAux(g)                \* showAppImages
           [] g.selectedItem = 6 -> showAppVersion(g)
           [] g.selectedItem = 7 -> ServerAux(g)                \* showAppHealth
           [] g.selectedItem = 8 -> [g EXCEPT !.screen = "AppMenu", !.selectedItem = 0]
           [] OTHER -> g

executeProxyMenuAction(g) ==
    CASE g.selectedItem = 0 -> viewProxyLogs(g)
      [] g.selectedItem = 1 -> ServerAux(g)                 \* showProxyDetails
      [] g.selectedItem = 2 -> ServerRun(g, "cmd")         \* proxyRestart
      [] g.selectedItem = 3 -> ServerRun(g, "cmd")         \* proxyReboot
      [] g.selectedItem = 4 -> showConfirm(g, "proxyStop", "none")  \* proxyStop
      [] g.selectedItem = 5 -> ServerRun(g, "cmd")         \* proxyStart
      [] g.selectedItem = 6 -> [g EXCEPT !.screen = "AppMenu", !.selectedItem = 0]
      [] OTHER -> g

ContainerSelected(g) == g.selectedContainer < Len(g.allContainers)

\* the menu items drawn in red (danger: true) by renderActionsMenu and
\* renderProxyMenu
ServerDanger(screen, idx) ==
    \/ screen = "ActionsMenu" /\ idx \in {2, 4}
    \/ screen = "ProxyMenu" /\ idx = 4

\* ---- project mode (gui.go, confirm.go, editor.go)
SubScreens == <<"Deploy", "App", "Server", "Accessory", "Proxy", "Other", "Config">>
DestLists == {<<>>, <<Production, Staging>>}
Found == {[err |-> TRUE, dests |-> <<>>]} \cup {[err |-> FALSE, dests |-> d] : d \in DestLists}
FileAnswers == {"ok", "missing", "unsafe"}

\* a bound that is the same on every screen
MenuMaxAnyScreen(screen) == 19

\* the last index keyDown lets submenuIdx reach on each screen
MenuMax(screen) ==
    CASE screen = "MainMenu" -> 6
      [] screen = "Deploy" -> 4
      [] screen = "App" -> 14
      [] screen = "Server" -> 2
      [] screen = "Accessory" -> 8
      [] screen = "Proxy" -> 12
      [] screen = "Other" -> 19
      [] screen = "Config" -> 3
      [] OTHER -> 0

isDestructiveAction(screen, idx) ==
    CASE screen = "Deploy" -> idx = 3
      [] screen = "App" -> idx \in {2, 13}
      [] screen = "Accessory" -> idx \in {2, 5}
      [] screen = "Proxy" -> idx \in {2, 8}
      [] screen = "Other" -> idx \in {0, 8, 14}
      [] OTHER -> FALSE

runWithConfirm(g) == showConfirm([g EXCEPT !.prevScreen = g.screen], "runCommand", "none")

startLiveLogs(g) ==
    IF g.liveLogsActive THEN g
    ELSE [LaunchStream(g, "stream") EXCEPT !.liveLogsActive = TRUE]

stopLiveLogs(g) ==
    IF ~g.liveLogsActive THEN g
    ELSE [CloseLiveLogsStop(g) EXCEPT !.liveLogsActive = FALSE]

\* found is what FindDeployConfigs answers
refreshDestinations(g, found) ==
    IF found.err THEN g
    ELSE [g EXCEPT !.destinations = found.dests,
                   !.selectedApp = IF @ >= Len(found.dests)
                                   THEN (IF Len(found.dests) - 1 < 0 THEN 0
                                         ELSE Len(found.dests) - 1)
                                   ELSE @]

openEditor(g, inConfig) ==
    [g EXCEPT !.editor = [nil |-> FALSE, PrevScreen |-> g.screen, Dirty |-> FALSE,
                          ConfirmQuit |-> FALSE, InConfig |-> inConfig],
              !.screen = "Editor"]

closeEditor(g, found) ==
    IF g.editor.nil THEN [g EXCEPT !.currentView = "main"]
    ELSE LET g1 == [g EXCEPT !.screen = g.editor.PrevScreen, !.editor = EditorNil,
                             !.currentView = "main"]
         IN IF g.editor.InConfig THEN refreshDestinations(g1, found) ELSE g1

editorQuit(g, found) ==
    IF g.editor.nil THEN g
    ELSE IF g.editor.ConfirmQuit
         THEN closeEditor([g EXCEPT !.editor.ConfirmQuit = FALSE], found)
    ELSE IF g.editor.Dirty THEN [g EXCEPT !.editor.ConfirmQuit = TRUE]
    ELSE closeEditor(g, found)

\* a printable rune in the editor view; yes tells 'y' from the others
editorRune(g, yes, found) ==
    IF ~g.editor.nil /\ g.editor.ConfirmQuit
    THEN (IF yes THEN closeEditor([g EXCEPT !.editor.ConfirmQuit = FALSE], found)
          ELSE [g EXCEPT !.editor.ConfirmQuit = FALSE])
    ELSE IF g.editor.nil THEN g ELSE [g EXCEPT !.editor.Dirty = TRUE]

\* Ctrl+S: fs tells whether the file could be written
editorSave(g, fs) ==
    IF g.editor.nil THEN g
    ELSE IF fs = "ok" THEN appendLog([g EXCEPT !.editor.Dirty = FALSE], <<"out">>)
    ELSE appendLog(g, <<"out">>)

\* fs is what the file system answers: "ok", "missing" or "unsafe"
execConfig(g, fs) ==
    CASE g.submenuIdx \in {0, 1} ->
             IF fs = "unsafe" THEN logError(g)
             ELSE IF fs = "missing" THEN appendLog(g, <<"out">>)
             ELSE appendLog(openEditor(g, g.submenuIdx = 0), <<"out">>)
      [] g.submenuIdx \in {2, 3} -> Launch([g EXCEPT !.running = TRUE], "cfg")
      [] OTHER -> g

execDeploy(g) ==
    CASE g.submenuIdx = 3 -> runWithConfirm(g)
      [] g.submenuIdx \in {0, 1, 2, 4} -> runCommand(g)
      [] OTHER -> g

execApp(g) ==
    CASE g.submenuIdx = 14 -> startLiveLogs(g)
      [] g.submenuIdx \in {2, 13} -> runWithConfirm(g)
      [] g.submenuIdx \in 0..13 \ {2, 13} -> runCommand(g)
      [] OTHER -> g

execServer(g) ==
    CASE g.submenuIdx \in 0..2 -> runCommand(g)
      [] OTHER -> g

execAccessory(g) ==
    CASE g.submenuIdx \in {2, 5} -> runWithConfirm(g)
      [] g.submenuIdx \in 0..8 \ {2, 5} -> runCommand(g)
      [] OTHER -> g

execProxy(g) ==
    CASE g.submenuIdx = 12 -> startLiveLogs(g)
      [] g.submenuIdx \in {2, 8} -> runWithConfirm(g)
      [] g.submenuIdx \in 0..11 \ {2, 8} -> runCommand(g)
      [] OTHER -> g

execOther(g) ==
    CASE g.submenuIdx \in {0, 8, 14} -> runWithConfirm(g)
      [] g.submenuIdx \in 0..19 \ {0, 8, 14} -> runCommand(g)
      [] OTHER -> g

\* ---- both modes
\* a resolution that runs the accept continuation whichever button is selected
confirmEnterAnySelection(g) ==
    IF g.confirm.nil THEN g ELSE closeConfirm(OnYes(g, g.confirm.OnYes))

\* the decline continuation of a dialog: every caller of showConfirm passes
\* nil; one that is passed is followed by the number of times it ran
OnNo(g, onNo) == IF onNo = "none" THEN g ELSE [g EXCEPT !.onNoCalls = @ + 1]

confirmEnter(g) ==
    IF g.confirm.nil THEN g
    ELSE IF g.confirm.Selected = 0 /\ g.confirm.OnYes # "none"
         THEN closeConfirm(OnYes(g, g.confirm.OnYes))
    ELSE IF g.confirm.Selected = 1 /\ g.confirm.OnNo # "none"
         THEN closeConfirm(OnNo(g, g.confirm.OnNo))
    ELSE closeConfirm(g)

\* the 'y' binding writes gui.confirm.Selected before any nil check
confirmYes(g) ==
    IF g.confirm.nil THEN [g EXCEPT !.panicked = TRUE]
    ELSE confirmEnter([g EXCEPT !.confirm.Selected = 0])

\* ---- key handlers (ServerGUI in server_mode.go, GUI in gui.go)
closeHelp(g) == [g EXCEPT !.screen = "Apps", !.currentView = "main"]

keyMain(g) ==
    IF g.screen = "Apps" THEN [g EXCEPT !.screen = "MainMenu", !.submenuIdx = 0] ELSE g

\* ServerGUI.keyEnter never looks at gui.running; GUI.keyEnter returns at
\* once while it is set
keyEnter(g, fs) ==
    IF ServerMode(g)
    THEN CASE g.screen = "Apps" ->
                  IF Len(g.apps) > 0 THEN [g EXCEPT !.screen = "AppMenu", !.selectedItem = 0]
                  ELSE g
           [] g.screen = "AppMenu" -> executeAppMenuAction(g)
           [] g.screen = "ActionsMenu" -> executeActionsMenuAction(g)
           [] g.screen = "ProxyMenu" -> executeProxyMenuAction(g)
           [] g.screen = "ContainerSelect" ->
                  IF ContainerSelected(g) THEN viewContainerLogs(g) ELSE g
           [] g.screen = "Help" -> [g EXCEPT !.screen = "Apps"]
           [] OTHER -> g
    ELSE IF g.running THEN g
    ELSE CASE g.screen = "Apps" -> [g EXCEPT !.screen = "MainMenu", !.submenuIdx = 0]
           [] g.screen = "MainMenu" ->
                  [g EXCEPT !.screen = SubScreens[g.submenuIdx + 1], !.submenuIdx = 0]
           [] g.screen = "Config" -> execConfig(g, fs)
           [] g.screen = "Deploy" -> execDeploy(g)
           [] g.screen = "App" -> execApp(g)
           [] g.screen = "Server" -> execServer(g)
           [] g.screen = "Accessory" -> execAccessory(g)
           [] g.screen = "Proxy" -> execProxy(g)
           [] g.screen = "Other" -> execOther(g)
           [] OTHER -> g

\* keyBack: close the dialog (the help, the editor), or stop the stream and
\* stay, or go one level up
keyBack(g, found) ==
    IF g.screen = "Confirm" THEN closeConfirm(g)
    ELSE IF ServerMode(g)
    THEN (IF g.streamingLogs THEN stopLogStream(g)
          ELSE CASE g.screen = "ContainerSelect" ->
                        [g EXCEPT !.screen = "AppMenu", !.selectedContainer = 0,
                                  !.allContainers = <<>>]
                 [] g.screen \in {"ActionsMenu", "ProxyMenu"} ->
                        [g EXCEPT !.screen = "AppMenu", !.selectedItem = 0]
                 [] g.screen = "AppMenu" -> [g EXCEPT !.screen = "Apps", !.selectedItem = 0]
                 [] g.screen = "Help" -> [g EXCEPT !.screen = "Apps"]
                 [] OTHER -> g)
    ELSE IF g.screen = "Help" THEN closeHelp(g)
    ELSE IF g.screen = "Editor" THEN editorQuit(g, found)
    ELSE IF g.liveLogsActive THEN stopLiveLogs(g)
    ELSE CASE g.screen = "MainMenu" -> [g EXCEPT !.screen = "Apps", !.submenuIdx = 0]
           [] g.screen \in {"Deploy", "App", "Server", "Accessory", "Proxy", "Other",
                            "Config"} ->
                  [g EXCEPT !.screen = "MainMenu", !.submenuIdx = 0]
           [] OTHER -> g

keyDown(g) ==
    IF ServerMode(g)
    THEN CASE g.screen = "Apps" ->
                  IF g.selectedApp < Len(g.apps) - 1 THEN [g EXCEPT !.selectedApp = @ + 1]
                  ELSE g
           [] g.screen = "AppMenu" ->
                  IF g.selectedItem < 6 THEN [g EXCEPT !.selectedItem = @ + 1] ELSE g
           [] g.screen = "ActionsMenu" ->
                  IF g.selectedItem < 8 THEN [g EXCEPT !.selectedItem = @ + 1] ELSE g
           [] g.screen = "ProxyMenu" ->
                  IF g.selectedItem < 6 THEN [g EXCEPT !.selectedItem = @ + 1] ELSE g
           [] g.screen = "ContainerSelect" ->
                  IF g.selectedContainer < Len(g.allContainers) - 1
                  THEN [g EXCEPT !.selectedContainer = @ + 1] ELSE g
           [] OTHER -> g
    ELSE CASE g.screen = "Apps" ->
                  IF g.selectedApp < Len(g.destinations) - 1
                  THEN [g EXCEPT !.selectedApp = @ + 1] ELSE g
           [] g.screen \in {"MainMenu", "Deploy", "App", "Server", "Accessory", "Proxy",
                            "Other", "Config"} ->
                  IF g.submenuIdx < MenuMax(g.screen) THEN [g EXCEPT !.submenuIdx = @ + 1]
                  ELSE g
           [] OTHER -> g

keyUp(g) ==
    IF ServerMode(g)
    THEN CASE g.screen = "Apps" ->
                  IF g.selectedApp > 0 THEN [g EXCEPT !.selectedApp = @ - 1] ELSE g
           [] g.screen \in {"AppMenu", "ActionsMenu", "ProxyMenu"} ->
                  IF g.selectedItem > 0 THEN [g EXCEPT !.selectedItem = @ - 1] ELSE g
           [] g.screen = "ContainerSelect" ->
                  IF g.selectedContainer > 0 THEN [g EXCEPT !.selectedContainer = @ - 1]
                  ELSE g
           [] OTHER -> g
    ELSE CASE g.screen = "Apps" ->
                  IF g.selectedApp > 0 THEN [g EXCEPT !.selectedApp = @ - 1] ELSE g
           [] g.screen \in {"MainMenu", "Deploy", "App", "Server", "Accessory", "Proxy",
                            "Other", "Config"} ->
                  IF g.submenuIdx > 0 THEN [g EXCEPT !.submenuIdx = @ - 1] ELSE g
           [] OTHER -> g

\* 'r' in server mode: restartContainer on the container list, else the
\* refresh of the apps on a goroutine; in project mode refreshDestinations
keyRefresh(g, found) ==
    IF ServerMode(g)
    THEN (IF g.screen = "ContainerSelect"
          THEN (IF ContainerSelected(g) THEN ServerRun(g, "cmd") ELSE g)
          ELSE Launch(logInfo(g), "refresh"))
    ELSE IF g.screen \in {"Editor", "Help"} THEN g
    ELSE appendLog(refreshDestinations(g, found), <<"out">>)

\* selectedDestination() # nil
hasSelectedDestination(g) ==
    Len(g.destinations) # 0 /\ g.selectedApp >= 0 /\ g.selectedApp < Len(g.destinations)

\* the remote commands refreshStatus runs, on the goroutine that calls it
refreshStatus(g) ==
    IF hasSelectedDestination(g) THEN <<"AppVersion", "AppContainers">> ELSE <<>>

\* the remote commands the handler of 'r' runs itself, before it returns to
\* the main loop: none in server mode, those of refreshStatus in project mode
keyRefreshRuns(g, found) ==
    IF ServerMode(g) THEN <<>>
    ELSE IF g.screen \in {"Editor", "Help"} THEN <<>>
    ELSE refreshStatus(refreshDestinations(g, found))

keyHelp(g) ==
    IF ServerMode(g)
    THEN (IF g.screen = "Help" THEN [g EXCEPT !.screen = "Apps"]
          ELSE [g EXCEPT !.screen = "Help"])
    ELSE IF g.screen = "Help" THEN closeHelp(g)
    ELSE IF g.screen # "Editor" THEN [g EXCEPT !.screen = "Help"]
    ELSE g

keyClearLog(g) ==
    IF ServerMode(g) THEN [g EXCEPT !.logLines = <<>>]
    ELSE IF g.screen \in {"Editor", "Help"} THEN g
    ELSE [g EXCEPT !.logLines = <<>>]

\* layout: in server mode the list built by renderContainerSelect; in both
\* modes the view that holds the focus after the redraw
Layout(g) ==
    IF ServerMode(g)
    THEN LET g1 == IF g.screen = "ContainerSelect" /\ SelectedAppInRange(g)
                      /\ Len(g.allContainers) = 0
                   THEN buildContainerList(g) ELSE g
         IN IF g1.screen = "Confirm"
            THEN (IF g1.confirm.nil THEN g1 ELSE [g1 EXCEPT !.currentView = "confirm"])
            ELSE IF g1.screen = "Help" THEN g1
            ELSE [g1 EXCEPT !.currentView = "main"]
    ELSE CASE g.screen = "Editor" ->
                  IF g.editor.nil THEN g ELSE [g EXCEPT !.currentView = "editor"]
           [] g.screen = "Help" -> [g EXCEPT !.currentView = "help"]
           [] g.screen = "Confirm" ->
                  IF g.confirm.nil THEN g ELSE [g EXCEPT !.currentView = "confirm"]
           [] OTHER -> g

\* ---- goroutine steps
Gone(g, w) == [g EXCEPT !.workers = @ (-) SetToBag({w})]

\* a refresh that rebuilds the list and leaves the selection as it was
refreshAppsAndContainersNoClamp(g, ok, found) ==
    IF ~ok THEN logError(g)
    ELSE IF g.screen # "ContainerSelect" THEN [g EXCEPT !.apps = found]
    ELSE buildContainerList([g EXCEPT !.apps = found])

\* refreshAppsAndContainers with the answer of DiscoverApps
refreshAppsAndContainers(g, ok, found) ==
    IF ~ok THEN logError(g)
    ELSE LET g1 == [g EXCEPT !.apps = found]
         IN IF g1.screen # "ContainerSelect" THEN g1
            ELSE LET g2 == buildContainerList(g1)
                 IN IF g2.selectedContainer >= Len(g2.allContainers)
                    THEN [g2 EXCEPT !.selectedContainer =
                             IF Len(g2.allContainers) - 1 < 0 THEN 0
                             ELSE Len(g2.allContainers) - 1]
                    ELSE g2

\* A worker goroutine from the return of its remote command on: its log
\* calls, the refresh of the remove operations, its deferred function.
WorkerBody(g, w, outcome, ok, found) ==
    LET tag == CASE outcome = "ok" -> "success" [] outcome = "err" -> "error"
                 [] OTHER -> "info"
        logged == IF w.kind = "cfg" THEN appendLog(g, <<"out">>)
                  ELSE IF ~ServerMode(g) /\ outcome = "ok"
                  THEN appendLog(appendLog(g, <<"out">>), <<tag>>)
                  ELSE appendLog(g, <<tag>>)
        refreshed == IF w.kind \in {"rmOne", "rmStopped"} /\ outcome = "ok"
                     THEN refreshAppsAndContainers(logged, ok, found) ELSE logged
        deferred == [Gone(refreshed, w) EXCEPT
                        !.running = FALSE,
                        !.runningCmd = IF ~ServerMode(g) /\ w.kind = "cmd" THEN "" ELSE @]
    IN IF w.kind = "aux" THEN Gone(refreshed, w) ELSE deferred

\* the goroutine of keyRefresh: logError, or gui.apps = apps and logSuccess
DiscoverBody(g, w, ok, found) ==
    IF ok THEN Gone(logSuccess([g EXCEPT !.apps = found]), w) ELSE Gone(logError(g), w)

\* what DiscoverApps can answer to a goroutine that calls it
Answers(w) ==
    IF w.kind \in {"rmOne", "rmStopped", "refresh"}
    THEN {[ok |-> FALSE, found |-> <<>>]} \cup {[ok |-> TRUE, found |-> a] : a \in AppLists}
    ELSE {[ok |-> FALSE, found |-> <<>>]}

Outcomes(w) ==
    CASE w.kind = "rmStopped" -> {"ok", "err", "none"}
      [] OTHER -> {"ok", "err"}

\* a stream goroutine after RunStream / RunKamalStream returned: the flag,
\* then the line that tells how the stream ended (server mode)
StreamReturned(g, st, err) ==
    IF ServerMode(g)
    THEN LET g1 == [g EXCEPT !.streamingLogs = FALSE, !.streams = @ (-) SetToBag({st})]
         IN IF err THEN logError(g1) ELSE logInfo(g1)
    ELSE [g EXCEPT !.liveLogsActive = FALSE, !.streams = @ (-) SetToBag({st})]

\* ---- the session as a state machine
ServerNew(found) ==
    [mode |-> "server", screen |-> "Apps", prevScreen |-> "Apps", currentView |-> "main",
     selectedApp |-> 0, selectedItem |-> 0, submenuIdx |-> 0, selectedContainer |-> 0,
     allContainers |-> <<>>, apps |-> found, destinations |-> <<>>,
     confirm |-> ConfirmNil, editor |-> EditorNil,
     running |-> FALSE, runningCmd |-> "", cmdStopCh |-> NilChan,
     streamingLogs |-> FALSE, liveLogsActive |-> FALSE, liveLogsStop |-> NilChan,
     logLines |-> <<>>, onNoCalls |-> 0,
     workers |-> EmptyBag, streams |-> EmptyBag,
     panicked |-> FALSE]

New(dests) ==
    [ServerNew(<<>>) EXCEPT !.mode = "project", !.currentView = "none",
                            !.destinations = dests,
                            !.liveLogsStop = "open"]

Init ==
    /\ dpc = "session"
    /\ containers = <<>>
    /\ apps = <<>>
    /\ detService = EmptyStr
    /\ detAll = {}
    /\ detResult = NoResult
    /\ gui \in {ServerNew(a) : a \in AppLists} \cup {New(d) : d \in DestLists}
    /\ call = NoCall

Alive == gui.mode # "none" /\ ~gui.panicked

\* what the file system can answer to the handler of the next key: only the
\* editor and the refresh of project mode ask it
FoundNow == IF ServerMode(gui) \/ gui.mode = "none" THEN {[err |-> TRUE, dests |-> <<>>]} ELSE Found
FilesNow == IF gui.mode = "project" /\ gui.screen = "Config" THEN FileAnswers ELSE {"ok"}

\* one pass of the main loop: the handler of the key, then layout
Handle(h) ==
    /\ Alive
    /\ BagCardinality(h.workers) <= MaxWorkers
    /\ BagCardinality(h.streams) <= MaxStreams
    /\ gui' = Layout(h)
    /\ UNCHANGED <<discVars, call>>

\* a step of a goroutine
Background(h) ==
    /\ gui' = h
    /\ UNCHANGED <<discVars, call>>

\* The keys. gocui runs the binding of the focused view when it has one for
\* the key, the global binding otherwise (keybindings, setEditorKeybindings):
\* the dialog binds Enter, Esc, the arrows, 'y' and 'n'; the editor binds Esc,
\* Enter, the arrows, Ctrl+S, Ctrl+Q and every printable rune.
PressEnter ==
    \E fs \in FilesNow :
        Handle(CASE gui.currentView = "confirm" -> confirmEnter(gui)
                 [] gui.currentView = "editor" ->
                        IF gui.editor.nil THEN gui ELSE [gui EXCEPT !.editor.Dirty = TRUE]
                 [] OTHER -> keyEnter(gui, fs))
PressEsc ==
    \E found \in FoundNow :
        Handle(CASE gui.currentView = "confirm" -> closeConfirm(gui)
                 [] gui.currentView = "editor" -> editorQuit(gui, found)
                 [] OTHER -> keyBack(gui, found))
PressB ==
    \E found \in FoundNow :
        Handle(IF gui.currentView = "editor" THEN editorRune(gui, FALSE, found)
               ELSE keyBack(gui, found))
PressUp == Handle(IF gui.currentView = "editor" THEN gui ELSE keyUp(gui))
PressDown == Handle(IF gui.currentView = "editor" THEN gui ELSE keyDown(gui))
PressLeft == gui.currentView = "confirm" /\ Handle(confirmLeft(gui))
PressRight == gui.currentView = "confirm" /\ Handle(confirmRight(gui))
PressR ==
    \E found \in FoundNow :
        Handle(IF gui.currentView = "editor" THEN editorRune(gui, FALSE, found)
               ELSE keyRefresh(gui, found))
PressHelp ==
    \E found \in FoundNow :
        Handle(IF gui.currentView = "editor" THEN editorRune(gui, FALSE, found)
               ELSE keyHelp(gui))
PressC ==
    \E found \in FoundNow :
        Handle(IF gui.currentView = "editor" THEN editorRune(gui, FALSE, found)
               ELSE keyClearLog(gui))
PressM ==
    /\ ~ServerMode(gui)
    /\ \E found \in FoundNow :
          Handle(IF gui.currentView = "editor" THEN editorRune(gui, FALSE, found)
                 ELSE keyMain(gui))
PressN ==
    /\ gui.currentView \in {"confirm", "editor"}
    /\ \E found \in FoundNow :
          Handle(IF gui.currentView = "confirm" THEN closeConfirm(gui)
                 ELSE editorRune(gui, FALSE, found))
PressY ==
    /\ gui.currentView \in {"confirm", "editor"}
    /\ \E found \in FoundNow :
          Handle(IF gui.currentView = "confirm" THEN confirmYes(gui)
                 ELSE editorRune(gui, TRUE, found))
\* keyContainerLogs, keyContainerStop (stopContainer asks first),
\* keyContainerStart, keyContainerRemove (removeContainer asks first, and only
\* for a container that is not running)
PressL ==
    /\ ServerMode(gui)
    /\ Handle(IF gui.screen = "ContainerSelect" /\ ContainerSelected(gui)
              THEN viewContainerLogs(gui) ELSE gui)
PressS ==
    /\ ServerMode(gui)
    /\ Handle(IF gui.screen = "ContainerSelect" /\ ContainerSelected(gui)
              THEN showConfirm(gui, "stopContainer", "none") ELSE gui)
PressShiftS ==
    /\ ServerMode(gui)
    /\ Handle(IF gui.screen = "ContainerSelect" /\ ContainerSelected(gui)
              THEN ServerRun(gui, "cmd") ELSE gui)
PressX ==
    /\ ServerMode(gui)
    /\ Handle(IF gui.screen = "ContainerSelect" /\ ContainerSelected(gui)
              THEN (IF gui.allContainers[gui.selectedContainer + 1].Container.State
                          # "running"
                    THEN showConfirm(gui, "removeContainer", "none") ELSE logError(gui))
              ELSE gui)
PressCtrlX == ServerMode(gui) /\ Handle(cancelCommand(gui))
PressCtrlS ==
    /\ gui.currentView = "editor"
    /\ \E fs \in {"ok", "failed"} : Handle(editorSave(gui, fs))
PressCtrlQ == gui.currentView = "editor" /\ \E found \in FoundNow : Handle(editorQuit(gui, found))

WorkerRun ==
    /\ Alive
    /\ \E w \in BagToSet(gui.workers) :
          /\ w.kind # "refresh"
          /\ \E outcome \in Outcomes(w), answer \in Answers(w) :
                Background(WorkerBody(gui, w, outcome, answer.ok, answer.found))

WorkerDiscover ==
    /\ Alive
    /\ \E w \in BagToSet(gui.workers) :
          /\ w.kind = "refresh"
          /\ \E answer \in Answers(w) : Background(DiscoverBody(gui, w, answer.ok, answer.found))

\* the goroutine of viewProxyLogs looks the proxy container up: found, it
\* goes on to stream; not found, it logs the error and takes the flag down
StreamLookup ==
    /\ Alive
    /\ \E st \in BagToSet(gui.streams) :
          /\ st.pc = "lookup"
          /\ \/ Background([gui EXCEPT !.streams = (@ (-) SetToBag({st}))
                                            (+) SetToBag({[st EXCEPT !.pc = "stream"]})])
             \/ Background([logError(gui) EXCEPT !.streamingLogs = FALSE,
                                                 !.streams = @ (-) SetToBag({st})])

\* onLine
StreamLine ==
    /\ Alive
    /\ \E st \in BagToSet(gui.streams) :
          /\ st.pc = "stream"
          /\ Background(appendLog(gui, <<"out">>))

\* the stream call returns: killed after the close of its stop channel, or
\* the remote process ended by itself
StreamReturn ==
    /\ Alive
    /\ \E st \in BagToSet(gui.streams) :
          /\ st.pc = "stream"
          /\ \E err \in BOOLEAN :
                /\ err => StopCh(gui, st) = "open"
                /\ Background(StreamReturned(gui, st, err))

Next ==
    \/ PressEnter \/ PressEsc \/ PressB \/ PressUp \/ PressDown \/ PressLeft \/ PressRight
    \/ PressR \/ PressHelp \/ PressC \/ PressM \/ PressN \/ PressY
    \/ PressL \/ PressS \/ PressShiftS \/ PressX \/ PressCtrlX \/ PressCtrlS \/ PressCtrlQ
    \/ WorkerRun \/ WorkerDiscover
    \/ StreamLookup \/ StreamLine \/ StreamReturn

Spec == Init /\ [][Next]_vars

\* ------------------------------------------------------------------------
\* Properties of the session
\* ------------------------------------------------------------------------
\* the items the render function of a list or menu screen prints (the apps,
\* the destinations, the containers, or its literal list of menu items)
ItemCount(g) ==
    IF ServerMode(g)
    THEN CASE g.screen = "Apps" -> Len(g.apps)
           [] g.screen = "AppMenu" -> 7
           [] g.screen = "ActionsMenu" -> 9
           [] g.screen = "ProxyMenu" -> 7
           [] g.screen = "ContainerSelect" -> Len(g.allContainers)
    ELSE CASE g.screen = "Apps" -> Len(g.destinations)
           [] g.screen = "MainMenu" -> 7
           [] g.screen = "Deploy" -> 5
           [] g.screen = "App" -> 15
           [] g.screen = "Server" -> 3
           [] g.screen = "Accessory" -> 9
           [] g.screen = "Proxy" -> 13
           [] g.screen = "Other" -> 20
           [] g.screen = "Config" -> 4

\* the screens that show a list or a menu, and the index their render
\* function marks as selected
ListScreens(g) ==
    IF ServerMode(g) THEN {"Apps", "AppMenu", "ActionsMenu", "ProxyMenu", "ContainerSelect"}
    ELSE {"Apps", "MainMenu", "Deploy", "App", "Server", "Accessory", "Proxy", "Other",
          "Config"}

SelectionIndex(g) ==
    IF g.screen = "Apps" THEN g.selectedApp
    ELSE IF ~ServerMode(g) THEN g.submenuIdx
    ELSE IF g.screen = "ContainerSelect" THEN g.selectedContainer
    ELSE g.selectedItem

\* the index names an item of the list, or is 0 on an empty list
SelectionInRange(g) ==
    g.screen \in ListScreens(g) =>
        /\ SelectionIndex(g) >= 0
        /\ SelectionIndex(g) < (IF ItemCount(g) = 0 THEN 1 ELSE ItemCount(g))

\* C3: in both modes and on every screen, when an operation is running and
\* Enter is pressed on the main view (no dialog, no editor holds the focus),
\* no worker and no stream is launched and the supervisor's state (running,
\* runningCmd, workers, streams) is what it was.
C3_EnterIgnoredWhileRunning ==
    [][(PressEnter /\ gui.running /\ gui.currentView \notin {"confirm", "editor"})
          => /\ gui'.workers = gui.workers
             /\ gui'.streams = gui.streams
             /\ gui'.running = gui.running
             /\ gui'.runningCmd = gui.runningCmd]_vars

\* C4: a step that changes the screen while a live log stream is active
\* leaves no stream active: the flag is down and no stream goroutine holds
\* an open stop channel.
C4_NoStreamAfterTransition ==
    [][((gui.streamingLogs \/ gui.liveLogsActive) /\ gui'.screen # gui.screen)
          => /\ ~gui'.streamingLogs
             /\ ~gui'.liveLogsActive
             /\ \A st \in BagToSet(gui'.streams) : StopCh(gui', st) # "open"]_vars

\* C5: Enter on a menu item flagged destructive (isDestructiveAction in
\* project mode, the danger items of the server menus) dispatches nothing by
\* itself: no worker is launched, the running flag is untouched, and the
\* dialog it opens has No selected.
C5_DestructiveNeedsConfirm ==
    [][(/\ PressEnter
        /\ gui.currentView \notin {"confirm", "editor"}
        /\ IF ServerMode(gui) THEN ServerDanger(gui.screen, gui.selectedItem)
           ELSE isDestructiveAction(gui.screen, gui.submenuIdx))
          => /\ gui'.workers = gui.workers
             /\ gui'.running = gui.running
             /\ ~gui'.confirm.nil => gui'.confirm.Selected = 1]_vars

\* C6: a dialog resolved by declining (Enter with No selected, 'n', or Esc,
\* pressed in the dialog) closes without running the accept continuation:
\* no worker, no stream, the running flag as before.
C6_DeclineStartsNothing ==
    [][(/\ gui.currentView = "confirm"
        /\ ~gui.confirm.nil
        /\ PressN \/ PressEsc \/ (PressEnter /\ gui.confirm.Selected = 1))
          => /\ gui'.confirm.nil
             /\ gui'.workers = gui.workers
             /\ gui'.streams = gui.streams
             /\ gui'.running = gui.running
             /\ gui'.runningCmd = gui.runningCmd]_vars

\* an open dialog with No selected whose accept continuation would launch a
\* worker, and which Enter closes
C6_Witness ==
    /\ gui.currentView = "confirm"
    /\ ~gui.confirm.nil
    /\ gui.confirm.Selected = 1
    /\ OnYes(gui, gui.confirm.OnYes).workers # gui.workers
    /\ Layout(confirmEnter(gui)).confirm.nil

\* C7: in every reachable state, with or without a stream running, stopping
\* twice in a row (stopLogStream in server mode, stopLiveLogs in project
\* mode) panics in neither call, closes the stop channel at most once (the
\* second call changes nothing), leaves the streaming flag down, and the
\* stream that was running on the current channel has its stop channel closed.
C7_StopTwice ==
    LET once == IF ServerMode(gui) THEN stopLogStream(gui) ELSE stopLiveLogs(gui)
        twice == IF ServerMode(gui) THEN stopLogStream(once) ELSE stopLiveLogs(once)
    IN gui.mode # "none" =>
          /\ ~gui.panicked /\ ~once.panicked /\ ~twice.panicked
          /\ twice = once
          /\ ~twice.streamingLogs /\ ~twice.liveLogsActive
          /\ (gui.streamingLogs \/ gui.liveLogsActive) =>
                \A st \in BagToSet(gui.streams) :
                    st.stop = "field" =>
                        \E t \in BagToSet(twice.streams) : StopCh(twice, t) = "closed"

\* a stream was stopped and its goroutine has not returned yet: the flag is
\* down, the channel it holds is closed
C7_Witness ==
    /\ gui.mode # "none"
    /\ ~gui.streamingLogs /\ ~gui.liveLogsActive
    /\ \E st \in BagToSet(gui.streams) : StopCh(gui, st) = "closed"

\* C8: in every state of a server session in which a stream is active,
\* cancel (Ctrl+X, cancelCommand) closes the stop channel of that stream and
\* takes the streaming flag down, and a second cancel changes nothing more.
C8_CancelClosesStream ==
    (ServerMode(gui) /\ gui.streamingLogs) =>
        LET once == cancelCommand(gui)
            twice == cancelCommand(once)
        IN /\ ~once.streamingLogs
           /\ \A st \in BagToSet(once.streams) : StopCh(once, st) # "open"
           /\ twice = once

ParentScreen(g) ==
    IF ServerMode(g)
    THEN CASE g.screen \in {"ContainerSelect", "ActionsMenu", "ProxyMenu"} -> "AppMenu"
           [] g.screen = "AppMenu" -> "Apps"
    ELSE CASE g.screen = "MainMenu" -> "Apps"
           [] g.screen \in {"Deploy", "App", "Server", "Accessory", "Proxy", "Other",
                            "Config"} -> "MainMenu"

\* C18: Back ('b' or Esc) on a menu screen below the app list moves to the
\* parent of that screen, also when a live stream is active at the time.
C18_BackPopsScreen ==
    [][(/\ gui.currentView \notin {"confirm", "editor"}
        /\ gui.screen \in ListScreens(gui) \ {"Apps"}
        /\ PressB \/ PressEsc)
          => gui'.screen = ParentScreen(gui)]_vars

\* ------------------------------------------------------------------------
\* The confirmation dialog under every pair of continuations
\* ------------------------------------------------------------------------
\* A session in which showConfirm has just opened a dialog, from each place
\* that opens one, with a decline continuation passed or not (the signature
\* takes one), and then the keys bound to the dialog's view until it is
\* resolved.
Asking ==
    LET full == CHOOSE a \in AppLists : Len(a) > 0
        server == ServerNew(full)
        onList == Layout([server EXCEPT !.screen = "ContainerSelect"])
        project == New(<<Production, Staging>>)
        flagged == {it \in {"Deploy", "App", "Accessory", "Proxy", "Other"} \X (0..19) :
                       it[2] <= MenuMax(it[1]) /\ isDestructiveAction(it[1], it[2])}
    IN {<<[server EXCEPT !.screen = "ActionsMenu", !.selectedItem = 2], "stopApp">>,
        <<[server EXCEPT !.screen = "ProxyMenu", !.selectedItem = 4], "proxyStop">>}
       \cup {<<[onList EXCEPT !.selectedContainer = k], y>> :
               k \in 0..(Len(onList.allContainers) - 1),
               y \in {"stopContainer", "removeContainer"}}
       \cup {<<[project EXCEPT !.screen = it[1], !.prevScreen = it[1],
                               !.submenuIdx = it[2], !.selectedApp = d], "runCommand">> :
               it \in flagged, d \in 0..1}

InitConfirm ==
    /\ dpc = "session"
    /\ containers = <<>>
    /\ apps = <<>>
    /\ detService = EmptyStr
    /\ detAll = {}
    /\ detResult = NoResult
    /\ call = NoCall
    /\ \E a \in Asking, onNo \in {"none", "given"} :
          gui = Layout(showConfirm(a[1], a[2], onNo))

NextConfirm ==
    \/ PressLeft
    \/ PressRight
    \/ gui.currentView = "confirm" /\ PressEnter
    \/ gui.currentView = "confirm" /\ PressEsc
    \/ gui.currentView = "confirm" /\ PressN
    \/ gui.currentView = "confirm" /\ PressY

SpecConfirm == InitConfirm /\ [][NextConfirm]_vars

SessionState(g) ==
    <<g.screen, g.prevScreen, g.selectedApp, g.selectedItem, g.submenuIdx,
      g.selectedContainer, g.apps, g.allContainers>>

\* the steps taken by goroutines other than the event loop
GoroutineStep == WorkerRun \/ WorkerDiscover \/ StreamLookup \/ StreamLine \/ StreamReturn

\* C25: no step of a worker goroutine changes the screen, a selection index,
\* the Application list or the flattened container list; a worker changes
\* the log buffer and the supervisor's state only.
C25_WorkersLeaveSessionState ==
    [][GoroutineStep => SessionState(gui') = SessionState(gui)]_vars

\* C27: the handler of a key runs no remote command itself: in every state
\* of the session, whatever the file system answers, the handler of 'r'
\* would return to the main loop without having run one.
C27_LoopRunsNoRemoteCommand ==
    (dpc = "session" /\ Alive /\ gui.currentView # "editor") =>
        \A found \in FoundNow : keyRefreshRuns(gui, found) = <<>>

\* the goroutines of blocking operations: those started with the running
\* flag set (the refresh of 'r' and the goroutines that only fetch text to
\* show do not set it)
OperationWorkers(g) == {w \in BagToSet(g.workers) : w.kind \notin {"aux", "refresh"}}

\* C29: the running flag is true exactly while the goroutine of at least
\* one blocking operation has been started and has not finished; the end of
\* one operation does not take the flag down while another is in flight.
C29_RunningIffWorkerInFlight ==
    (dpc = "session" /\ Alive) => (gui.running <=> OperationWorkers(gui) # {})

\* C32: a confirmation dialog exists exactly while the current screen is the
\* confirm screen, under any key sequence, and each resolution of it (Enter
\* on either button, 'y', 'n', Esc) destroys it.
C32_OverlayIffConfirmScreen ==
    (dpc = "session" /\ Alive) =>
        /\ ~gui.confirm.nil <=> gui.screen = "Confirm"
        /\ ~gui.confirm.nil =>
              /\ confirmEnter(gui).confirm.nil
              /\ confirmEnter(confirmLeft(gui)).confirm.nil
              /\ confirmYes(gui).confirm.nil
              /\ closeConfirm(gui).confirm.nil

DefaultTimeout == 30    \* seconds: Client.Run is RunWithTimeout(command, 30*time.Second)
\* Bounds of the executor model
MaxTime == 32           \* seconds the clock of a blocking call is followed
MaxLines == 2           \* lines a stream is followed for

\* RunStream (ssh) and RunKamalStream; RunWithTimeout (ssh), the Client.Run
\* of pkg/ssh/ssh.go that calls cmd.Run directly ("Run"), and RunKamal
Streaming == {"RunStream", "RunKamalStream"}
Blocking == {"RunWithTimeout", "Run", "RunKamal"}

\* a call on entry: no process yet, the caller's stop channel open, and a
\* context with a deadline only in RunWithTimeout
NewCall(fn) ==
    [fn |-> fn, pc |-> "start", proc |-> "none", killed |-> FALSE, done |-> FALSE,
     stopCh |-> "open", ctx |-> fn = "RunWithTimeout",
     timeout |-> IF fn = "RunWithTimeout" THEN DefaultTimeout ELSE 0,
     elapsed |-> 0, chunk |-> 0, lines |-> 0, err |-> "none", status |-> 0, exitCode |-> 0]

\* cmd.Start (also the first half of cmd.Run)
cmdStart(c, ok) ==
    IF ok THEN [c EXCEPT !.proc = "running", !.pc = "wait"]
    ELSE [c EXCEPT !.pc = "returned", !.err = "start"]

\* cmd.Process.Kill(): the signal is sent, its error (process already
\* finished) is dropped
Kill(c) == IF c.proc = "running" THEN [c EXCEPT !.killed = TRUE] ELSE c

\* a cancel branch that returns right after Kill
selectStopNoWait(c) == [Kill(c) EXCEPT !.pc = "returned"]

\* case <-stopCh: Kill, then block on <-done
selectStop(c) == [Kill(c) EXCEPT !.pc = "teardown"]

\* exit statuses a process is followed with
ExitStatuses == {0, 1, 2}

\* cmd.Run returned, the process having exited with the given status:
\* RunWithTimeout reports the deadline first; RunKamal turns an
\* *exec.ExitError into Result.ExitCode and a nil error; the two ssh
\* functions return (string, error) and hand any error of cmd.Run back
cmdRunReturned(c, status) ==
    [c EXCEPT !.pc = "returned",
              !.status = status,
              !.err = IF c.ctx /\ c.elapsed >= c.timeout THEN "timeout"
                      ELSE IF status # 0 /\ c.fn # "RunKamal" THEN "exit"
                      ELSE "none",
              !.exitCode = IF c.fn = "RunKamal" THEN status ELSE 0]

InitExec ==
    /\ dpc = "exec"
    /\ containers = <<>>
    /\ apps = <<>>
    /\ detService = EmptyStr
    /\ detAll = {}
    /\ detResult = NoResult
    /\ gui = NoSession
    /\ call \in {NewCall(fn) : fn \in Streaming \cup Blocking}

Calling == dpc = "exec" /\ call.fn # "none"

Step(c) == call' = c /\ UNCHANGED <<discVars, gui>>

ExecStart == Calling /\ call.pc = "start" /\ \E ok \in BOOLEAN : Step(cmdStart(call, ok))

\* the process ends by itself
ProcessExits ==
    /\ Calling /\ call.proc = "running" /\ ~call.killed
    /\ Step([call EXCEPT !.proc = "exited"])

\* the process dies of the kill signal
KillDelivered ==
    /\ Calling /\ call.proc = "running" /\ call.killed
    /\ Step([call EXCEPT !.proc = "exited"])

\* go func() { cmd.Wait(); close(done) }()
WaitReturns ==
    /\ Calling /\ call.fn \in Streaming /\ call.proc = "exited" /\ ~call.done
    /\ Step([call EXCEPT !.done = TRUE])

\* case <-done: return nil
SelectDone ==
    /\ Calling /\ call.fn \in Streaming /\ call.pc = "wait" /\ call.done
    /\ Step([call EXCEPT !.pc = "returned"])

\* case <-stopCh
SelectStop ==
    /\ Calling /\ call.fn \in Streaming /\ call.pc = "wait" /\ call.stopCh = "closed"
    /\ Step(selectStop(call))

\* <-done after Kill: return nil
AwaitDone ==
    /\ Calling /\ call.pc = "teardown" /\ call.done
    /\ Step([call EXCEPT !.pc = "returned"])

\* the caller closes the stop channel it passed
CloseStopCh ==
    /\ Calling /\ call.fn \in Streaming /\ call.stopCh = "open" /\ call.pc # "returned"
    /\ Step([call EXCEPT !.stopCh = "closed"])

\* a reader goroutine's Read (the Scanner's Read) returns one more line of
\* the process's output: the pipes deliver until cmd.Wait has closed them
ReaderRead ==
    /\ Calling /\ call.fn \in Streaming /\ call.proc # "none" /\ ~call.done
    /\ call.lines + call.chunk < MaxLines
    /\ Step([call EXCEPT !.chunk = @ + 1])

\* a reader goroutine hands a line it has read to onLine; readLines of
\* RunKamalStream returns once stopCh is closed
OnLine ==
    /\ Calling /\ call.fn \in Streaming /\ call.chunk > 0
    /\ call.fn = "RunKamalStream" => call.stopCh = "open"
    /\ Step([call EXCEPT !.lines = @ + 1, !.chunk = @ - 1])

\* a second passes while cmd.Run blocks; a context's deadline fires on time
Tick ==
    /\ Calling /\ call.fn \in Blocking /\ call.pc = "wait" /\ call.elapsed < MaxTime
    /\ call.ctx => call.elapsed < call.timeout
    /\ Step([call EXCEPT !.elapsed = @ + 1])

\* exec.CommandContext kills the process when the context is done
ContextDeadline ==
    /\ Calling /\ call.ctx /\ call.pc = "wait" /\ call.elapsed >= call.timeout
    /\ call.proc = "running" /\ ~call.killed
    /\ Step(Kill(call))

CmdRunReturns ==
    /\ Calling /\ call.fn \in Blocking /\ call.pc = "wait" /\ call.proc = "exited"
    /\ \E status \in ExitStatuses : Step(cmdRunReturned(call, status))

NextExec ==
    \/ ExecStart \/ ProcessExits \/ KillDelivered \/ WaitReturns
    \/ SelectDone \/ SelectStop \/ AwaitDone \/ CloseStopCh \/ ReaderRead \/ OnLine
    \/ Tick \/ ContextDeadline \/ CmdRunReturns

\* The Go scheduler runs every goroutine that can run, and a killed process
\* dies; nothing makes a process end by itself, a second pass, or the caller
\* close the stop channel.
SpecExec ==
    /\ InitExec /\ [][NextExec]_vars
    /\ WF_vars(ExecStart) /\ WF_vars(KillDelivered) /\ WF_vars(WaitReturns)
    /\ WF_vars(SelectDone \/ SelectStop) /\ WF_vars(AwaitDone)
    /\ WF_vars(ContextDeadline) /\ WF_vars(CmdRunReturns)

\* ------------------------------------------------------------------------
\* Properties of the executors
\* ------------------------------------------------------------------------
\* C9: a stream call never returns while its process is running, and once
\* its stop channel is closed the call eventually returns, with no process
\* left running.
C9_CancelTearsDown ==
    /\ []((call.fn \in Streaming /\ call.pc = "returned") => call.proc # "running")
    /\ (call.fn \in Streaming /\ call.stopCh = "closed")
          ~> (call.pc = "returned" /\ call.proc # "running")

\* a stream call that returned through its cancel branch: the process was
\* killed, has exited and was waited for
C9_Witness ==
    /\ call.fn \in Streaming
    /\ call.pc = "returned"
    /\ call.stopCh = "closed"
    /\ call.killed /\ call.proc = "exited" /\ call.done

\* C36: once a stream executor has returned to its caller, after the exit
\* of the process or after a cancel, onLine is not invoked again.
C36_NoLineAfterReturn ==
    [][(dpc = "exec" /\ call.fn \in Streaming /\ call'.lines # call.lines)
          => call.pc # "returned"]_vars

\* C10: no blocking invocation is still in progress after more than its
\* timeout (30 s by default) has elapsed.
C10_BlockingBounded ==
    (call.fn \in Blocking /\ call.pc = "wait") => call.elapsed <= DefaultTimeout

\* C11: a blocking invocation whose process started and exited by itself
\* with a non-zero status returns no error, and its result carries that
\* status as exit code.
C11_NonZeroExitIsResult ==
    (/\ call.fn \in Blocking /\ call.pc = "returned"
     /\ call.proc = "exited" /\ ~call.killed /\ call.status # 0)
        => (call.err = "none" /\ call.exitCode = call.status)

\* ========================================================================
\* The execution supervisor and the log buffer, statement by statement
\* ========================================================================
\* One blocking operation at a time (GUI.runCommand in project mode,
\* ServerGUI.restartContainer and restartApp in server mode), its goroutine
\* followed statement by statement, together with the log buffer it writes
\* and, in server mode, the scroll offset of the log pane. A line is a record
\* of its number in the order of appending (seq), its level, the duration it
\* reports (NoDuration when it reports none) and whether timestampedLine
\* prefixed it.
\* Bounds of this model
LogBufCap == 3      \* lines the buffer keeps (1000 in server mode, logBufLive = 3000)
MaxAppended == 5    \* no operation starts once this many lines were appended
MaxBatch == 2       \* output lines of one result, containers of one app
MaxElapsed == 2     \* seconds an operation's function is followed for
ViewHeight == 2     \* rows of the log pane

ScrollStep == 5     \* keyScrollDown, keyScrollUp
NoDuration == -1

\* appendLog: timestampedLine of every line, the trim, and in server mode
\* gui.logScroll = len(gui.logLines)
bufferAppend(g, texts) ==
    LET new == [i \in 1..Len(texts) |->
                   [seq |-> g.appended + i, level |-> texts[i][1],
                    duration |-> texts[i][2], stamped |-> TRUE]]
        kept == AppendTrim(g.logLines, new, LogBufCap)
    IN [g EXCEPT !.logLines = kept,
                 !.appended = @ + Len(texts),
                 !.logScroll = IF ServerMode(g) THEN Len(kept) ELSE @]

\* renderLog: nothing is clamped while the buffer is empty
renderLog(g) ==
    IF Len(g.logLines) = 0 THEN g
    ELSE LET maxScroll == IF Len(g.logLines) - ViewHeight < 0 THEN 0
                          ELSE Len(g.logLines) - ViewHeight
             hi == IF g.logScroll > maxScroll THEN maxScroll ELSE g.logScroll
         IN [g EXCEPT !.logScroll = IF hi < 0 THEN 0 ELSE hi]

keyScrollDown(g) == [g EXCEPT !.logScroll = @ + ScrollStep]

keyScrollUp(g) ==
    IF g.logScroll > 0
    THEN [g EXCEPT !.logScroll = IF @ - ScrollStep < 0 THEN 0 ELSE @ - ScrollStep]
    ELSE g

\* the rows renderLog would print include the newest line
ShowsNewest(g) ==
    Len(g.logLines) = 0 \/ renderLog(g).logScroll + ViewHeight >= Len(g.logLines)

\* the three operations: what they do before the goroutine starts (the
\* "Running"/"Restarting" line, running, runningCmd, cmdStartTime; restartApp
\* of an app without containers only logs an error)
OpKinds(g) == IF ServerMode(g) THEN {"restartContainer", "restartApp"} ELSE {"runCommand"}

runOperation(g, kind, n) ==
    IF kind = "restartApp" /\ n = 0 THEN bufferAppend(g, <<<<"error", NoDuration>>>>)
    ELSE [bufferAppend(g, <<<<"info", NoDuration>>>>) EXCEPT
             !.running = TRUE, !.runningCmd = Named, !.elapsed = 0,
             !.kind = kind, !.pc = "fn",
             !.todo = IF kind = "restartApp" THEN n ELSE 1]

\* runCommand's goroutine after fn(): the error line and return, or the
\* output (appendLogFromResult)
\* a goroutine that returns on the error without logging it
fnReturnedSilent(g, failed, code, n) ==
    IF failed
    THEN [g EXCEPT !.pc = "defer"]
    ELSE [bufferAppend(g, [i \in 1..n |-> <<"output", NoDuration>>]) EXCEPT
             !.pc = "completion", !.exitCode = code]

fnReturned(g, failed, code, n) ==
    IF failed
    THEN [bufferAppend(g, <<<<"error", NoDuration>>>>) EXCEPT !.pc = "defer"]
    ELSE [bufferAppend(g, [i \in 1..n |-> <<"output", NoDuration>>]) EXCEPT
             !.pc = "completion", !.exitCode = code]

\* docker.RestartContainer of one container returned
restartReturned(g, failed) ==
    LET logged == bufferAppend(g, <<<<IF failed THEN "error" ELSE "success", NoDuration>>>>)
    IN [logged EXCEPT !.todo = @ - 1,
                      !.pc = IF g.kind = "restartContainer" THEN "defer"
                             ELSE IF g.todo > 1 THEN "fn" ELSE "completion"]

\* the completion line with formatDuration(time.Since(cmdStartTime))
completion(g) ==
    [bufferAppend(g, <<<<IF g.kind = "runCommand" /\ g.exitCode # 0 THEN "error"
                        ELSE "success", g.elapsed>>>>) EXCEPT !.pc = "defer"]

\* the deferred function: running = false; runCommand also clears the name
workerDefer(g) ==
    [g EXCEPT !.running = FALSE, !.pc = "idle",
              !.runningCmd = IF g.kind = "runCommand" THEN "" ELSE @]

InitLog ==
    /\ dpc = "log"
    /\ containers = <<>>
    /\ apps = <<>>
    /\ detService = EmptyStr
    /\ detAll = {}
    /\ detResult = NoResult
    /\ call = NoCall
    /\ gui \in {[mode |-> md, pc |-> "idle", kind |-> "none", running |-> FALSE,
                 runningCmd |-> "", elapsed |-> 0, todo |-> 0, exitCode |-> 0,
                 logLines |-> <<>>, logScroll |-> 0, appended |-> 0]
                    : md \in {"server", "project"}}

LogStep(g) == dpc = "log" /\ gui' = g /\ UNCHANGED <<discVars, call>>

OpStart ==
    /\ gui.pc = "idle" /\ gui.appended < MaxAppended
    /\ \E kind \in OpKinds(gui), n \in 0..MaxBatch : LogStep(runOperation(gui, kind, n))

OpTick == gui.pc = "fn" /\ gui.elapsed < MaxElapsed /\ LogStep([gui EXCEPT !.elapsed = @ + 1])

OpFnReturns ==
    /\ gui.pc = "fn"
    /\ IF gui.kind = "runCommand"
       THEN \E failed \in BOOLEAN, code \in {0, 1}, n \in 0..MaxBatch :
                LogStep(fnReturned(gui, failed, code, n))
       ELSE \E failed \in BOOLEAN : LogStep(restartReturned(gui, failed))

OpCompletion == gui.pc = "completion" /\ LogStep(completion(gui))

OpDefer == gui.pc = "defer" /\ LogStep(workerDefer(gui))

ScrollDown == ServerMode(gui) /\ gui.logScroll < LogBufCap + ScrollStep /\ LogStep(keyScrollDown(gui))

ScrollUp == ServerMode(gui) /\ LogStep(keyScrollUp(gui))

RenderLog == ServerMode(gui) /\ LogStep(renderLog(gui))

NextLog ==
    \/ OpStart \/ OpTick \/ OpFnReturns \/ OpCompletion \/ OpDefer
    \/ ScrollDown \/ ScrollUp \/ RenderLog

SpecLog == InitLog /\ [][NextLog]_vars

\* ------------------------------------------------------------------------
\* Properties of the supervisor and the log buffer
\* ------------------------------------------------------------------------
\* C12: whenever a worker clears the running flag, the newest line of the
\* log buffer is the completion line of its operation, one that reports the
\* elapsed duration.
C12_CompletionBeforeIdle ==
    [][(gui.running /\ ~gui'.running)
          => /\ Len(gui'.logLines) > 0
             /\ gui'.logLines[Len(gui'.logLines)].duration # NoDuration]_vars

\* C13: the buffer never holds more than its cap; once more lines than the
\* cap were appended it holds exactly cap lines, and at all times its lines
\* are the most recently appended ones in the order of appending.
C13_KeepsNewest ==
    LET n == Len(gui.logLines)
    IN /\ n <= LogBufCap
       /\ n = (IF gui.appended > LogBufCap THEN LogBufCap ELSE gui.appended)
       /\ \A i \in 1..n : gui.logLines[i].seq = gui.appended - n + i

\* more lines than the cap were appended, the last append being one of
\* several lines at once
C13_Witness ==
    /\ gui.appended > LogBufCap + 1
    /\ gui.pc = "completion"
    /\ Len(gui.logLines) = LogBufCap
    /\ gui.logLines[LogBufCap].level = "output"
    /\ gui.logLines[LogBufCap - 1].level = "output"

\* C14: an append in server mode leaves the scroll offset alone when the
\* operator had scrolled back (the pane was not showing the newest line),
\* and otherwise leaves the pane showing the newest line.
C14_AutoScrollUnlessScrolledBack ==
    [][(ServerMode(gui) /\ gui'.appended > gui.appended)
          => IF ShowsNewest(gui) THEN ShowsNewest(gui')
             ELSE gui'.logScroll = gui.logScroll]_vars

\* ========================================================================
\* The container list of a server session under refreshes
\* ========================================================================
\* A server session on the container list of one of its apps, while
\* containers disappear from the host and refreshAppsAndContainers runs (it
\* is the last step of the remove operations). The variable containers holds
\* the containers of the host; gui.before records the selection and the
\* length of the list as they were when the last step, if it was a refresh,
\* began.
HostContainers ==
    <<[Container(1, StrA, EmptyStr, EmptyStr) EXCEPT !.State = "exited"],
      Container(2, StrAB, EmptyStr, EmptyStr),
      Container(3, StrBC, EmptyStr, StrB),
      Container(4, StrA, EmptyStr, EmptyStr)>>

\* DiscoverApps on a host with these containers
Discovered(cs) == SortApps(StampProxy(groupContainers(cs), <<"r">>))

NoRefresh == [refreshed |-> FALSE, sel |-> 0, len |-> 0]

InitRefresh ==
    /\ dpc = "refresh"
    /\ containers = HostContainers
    /\ apps = <<>>
    /\ detService = EmptyStr
    /\ detAll = {}
    /\ detResult = NoResult
    /\ call = NoCall
    /\ \E i \in 0..(Len(Discovered(HostContainers)) - 1) :
          gui = Layout([ServerNew(Discovered(HostContainers)) EXCEPT
                           !.screen = "ContainerSelect", !.prevScreen = "AppMenu",
                           !.selectedApp = i])
                @@ [before |-> NoRefresh]

RefreshStep(g) ==
    /\ dpc = "refresh"
    /\ gui' = g
    /\ UNCHANGED <<dpc, apps, detService, detAll, detResult, call>>

\* a container is removed from the host
HostRemove ==
    /\ \E k \in 1..Len(containers) :
          containers' = SubSeq(containers, 1, k - 1) \o SubSeq(containers, k + 1, Len(containers))
    /\ RefreshStep([gui EXCEPT !.before = NoRefresh])

SelectDown ==
    /\ RefreshStep([Layout(keyDown(gui)) EXCEPT !.before = NoRefresh])
    /\ UNCHANGED containers

SelectUp ==
    /\ RefreshStep([Layout(keyUp(gui)) EXCEPT !.before = NoRefresh])
    /\ UNCHANGED containers

\* refreshAppsAndContainers on the goroutine of a remove operation
Refresh ==
    /\ \E ok \in BOOLEAN :
          RefreshStep([refreshAppsAndContainers(gui, ok, Discovered(containers)) EXCEPT
                          !.before = [refreshed |-> TRUE, sel |-> gui.selectedContainer,
                                      len |-> Len(gui.allContainers)]])
    /\ UNCHANGED containers

NextRefresh == HostRemove \/ SelectDown \/ SelectUp \/ Refresh

SpecRefresh == InitRefresh /\ [][NextRefresh]_vars

\* C16: after a refresh that rebuilt the container list with fewer
\* containers, the selected index is the one it was if that is still within
\* the new list, else the last index of the new list (0 when it is empty).
C16_ClampAfterShrink ==
    (gui.before.refreshed /\ Len(gui.allContainers) < gui.before.len)
        => /\ gui.selectedContainer >= 0
           /\ gui.selectedContainer < (IF Len(gui.allContainers) = 0 THEN 1
                                       ELSE Len(gui.allContainers))
           /\ gui.selectedContainer =
                 IF gui.before.sel < Len(gui.allContainers) THEN gui.before.sel
                 ELSE IF Len(gui.allContainers) = 0 THEN 0
                 ELSE Len(gui.allContainers) - 1

\* a refresh found the list shorter than the selected index and moved the
\* selection to its last container
C16_Witness ==
    /\ gui.before.refreshed
    /\ Len(gui.allContainers) < gui.before.len
    /\ gui.before.sel >= Len(gui.allContainers)
    /\ gui.selectedContainer = Len(gui.allContainers) - 1

\* ========================================================================
\* parseContainers: the listing output, line by line
\* ========================================================================
MaxOutput == 5      \* characters of listing output

\* The output of the listing command, reduced to four kinds of characters:
\* the newline, a blank, a character that is not JSON, and a whole JSON
\* object of the listing's format (it stands for the characters from its
\* opening to its closing brace and carries the fields read from it).
OutputChar(kind, id, service) == [kind |-> kind, ID |-> id, service |-> service]
NL == OutputChar("newline", 0, EmptyStr)
SP == OutputChar("blank", 0, EmptyStr)
Junk == OutputChar("junk", 0, EmptyStr)
IsObject(ch) == ch.kind = "object"
ObjectChars == {OutputChar("object", 1, StrA), OutputChar("object", 2, StrAB)}
OutputChars == {NL, SP, Junk} \cup ObjectChars

RECURSIVE TrimLeft(_)
TrimLeft(s) == IF s # <<>> /\ Head(s) \in {NL, SP} THEN TrimLeft(Tail(s)) ELSE s

RECURSIVE TrimRight(_)
TrimRight(s) ==
    IF s # <<>> /\ s[Len(s)] \in {NL, SP} THEN TrimRight(SubSeq(s, 1, Len(s) - 1)) ELSE s

\* strings.TrimSpace
TrimSpace(s) == TrimRight(TrimLeft(s))

\* strings.Split(s, "\n"): cur is the line being read
RECURSIVE SplitLinesFrom(_, _, _)
SplitLinesFrom(s, i, cur) ==
    IF i > Len(s) THEN <<cur>>
    ELSE IF s[i] = NL THEN <<cur>> \o SplitLinesFrom(s, i + 1, <<>>)
    ELSE SplitLinesFrom(s, i + 1, Append(cur, s[i]))

SplitLines(s) == SplitLinesFrom(s, 1, <<>>)

RECURSIVE SkipBlanks(_)
SkipBlanks(s) == IF s # <<>> /\ Head(s) = SP THEN SkipBlanks(Tail(s)) ELSE s

\* json.Unmarshal of one line into the listing's struct: blanks, one
\* object, blanks; anything else is an error
Unmarshal(line) ==
    LET rest == SkipBlanks(line)
    IN IF rest # <<>> /\ IsObject(Head(rest)) /\ SkipBlanks(Tail(rest)) = <<>>
       THEN [err |-> FALSE, c |-> Head(rest)]
       ELSE [err |-> TRUE, c |-> NIL]

\* the loop that gives up at the first line that does not parse
RECURSIVE parseLoopAbort(_, _, _)
parseLoopAbort(lines, i, cs) ==
    IF i > Len(lines) THEN cs
    ELSE IF lines[i] = <<>> THEN parseLoopAbort(lines, i + 1, cs)
    ELSE IF Unmarshal(lines[i]).err THEN cs
    ELSE parseLoopAbort(lines, i + 1,
             Append(cs, Container(Unmarshal(lines[i]).c.ID,
                                  Unmarshal(lines[i]).c.service, EmptyStr, EmptyStr)))

\* for _, line := range lines
RECURSIVE parseLoop(_, _, _)
parseLoop(lines, i, cs) ==
    IF i > Len(lines) THEN cs
    ELSE IF lines[i] = <<>> THEN parseLoop(lines, i + 1, cs)
    ELSE IF Unmarshal(lines[i]).err THEN parseLoop(lines, i + 1, cs)
    ELSE parseLoop(lines, i + 1,
             Append(cs, Container(Unmarshal(lines[i]).c.ID,
                                  Unmarshal(lines[i]).c.service, EmptyStr, EmptyStr)))

parseContainers(output) == parseLoop(SplitLines(TrimSpace(output)), 1, <<>>)

RECURSIVE OutputsUpTo(_)
OutputsUpTo(n) ==
    IF n = 0 THEN {<<>>}
    ELSE OutputsUpTo(n - 1) \cup
         {Append(o, ch) : o \in {p \in OutputsUpTo(n - 1) : Len(p) = n - 1},
                          ch \in OutputChars}

\* client.Run of the listing command has returned its output
InitParse ==
    /\ dpc = "listed"
    /\ containers = <<>>
    /\ apps = <<>>
    /\ detService = EmptyStr
    /\ detAll = {}
    /\ detResult = NoResult
    /\ gui = NoSession
    /\ call \in {[fn |-> "Run", output |-> o] : o \in OutputsUpTo(MaxOutput)}

\* containers := parseContainers(output)
ParseCall ==
    /\ dpc = "listed"
    /\ containers' = parseContainers(call.output)
    /\ dpc' = "parsed"
    /\ UNCHANGED <<apps, detService, detAll, detResult, gui, call>>

NextParse == ParseCall

SpecParse == InitParse /\ [][NextParse]_vars

\* the lines of the output as pairs of positions: a line lies strictly
\* between two consecutive line ends (a newline, or an end of the output)
LineEnds(o) == {0, Len(o) + 1} \cup {i \in 1..Len(o) : o[i] = NL}

LinesOf(o) ==
    {ln \in LineEnds(o) \X LineEnds(o) :
        ln[1] < ln[2] /\ \A e \in LineEnds(o) : ~(ln[1] < e /\ e < ln[2])}

\* the positions of a line that hold something other than a blank
InkOf(o, ln) == {i \in (ln[1] + 1)..(ln[2] - 1) : o[i] # SP}

\* a line parses when apart from blanks it is one object
ValidLines(o) ==
    {ln \in LinesOf(o) : Cardinality(InkOf(o, ln)) = 1
                         /\ \A i \in InkOf(o, ln) : IsObject(o[i])}

\* C22: every line of the listing that parses yields exactly one record,
\* in the order of the lines, however many malformed lines lie between:
\* the records are as many as the lines that parse, and the k-th record is
\* the one read from the k-th such line.
C22_MalformedLineDropped ==
    dpc = "parsed" =>
        /\ Len(containers) = Cardinality(ValidLines(call.output))
        /\ \A ln \in ValidLines(call.output) :
              LET k == Cardinality({l2 \in ValidLines(call.output) : l2[1] <= ln[1]})
              IN \A i \in InkOf(call.output, ln) :
                    /\ containers[k].ID = call.output[i].ID
                    /\ containers[k].service = call.output[i].service

\* a listing with a malformed line between two lines that parse
C22_Witness ==
    /\ dpc = "parsed"
    /\ Len(containers) = 2
    /\ \E l1, l2, l3 \in LinesOf(call.output) :
          /\ l1[1] < l2[1] /\ l2[1] < l3[1]
          /\ {l1, l3} \subseteq ValidLines(call.output)
          /\ l2 \notin ValidLines(call.output)
          /\ InkOf(call.output, l2) # {}

\* ========================================================================
\* The stream executors' readers: from the process's output to onLine
\* ========================================================================
MaxWritten == 3     \* characters the process writes to one standard stream
ReadBuf == 2        \* bytes one Read may return (buf is 1024 bytes in the code)

Newline == "\n"
StreamChars == {"a", Newline}
Stdout == 1
Stderr == 2

\* every way to cut s into a first line and a rest at a newline: the text
\* before the first newline, and the text after it
BeforeNewline(s) ==
    IF \E i \in 1..Len(s) : s[i] = Newline
    THEN SubSeq(s, 1, (CHOOSE i \in 1..Len(s) :
                          s[i] = Newline /\ \A j \in 1..(i - 1) : s[j] # Newline) - 1)
    ELSE s

AfterNewline(s) ==
    SubSeq(s, Len(BeforeNewline(s)) + 2, Len(s))

HasNewline(s) == \E i \in 1..Len(s) : s[i] = Newline

\* strings.Split(chunk, "\n")
RECURSIVE SplitChunk(_)
SplitChunk(s) ==
    IF HasNewline(s) THEN <<BeforeNewline(s)>> \o SplitChunk(AfterNewline(s))
    ELSE <<s>>

\* for _, line := range lines { if line != "" { onLine(line) } }
RECURSIVE NonEmptyOf(_)
NonEmptyOf(pieces) ==
    IF pieces = <<>> THEN <<>>
    ELSE IF Head(pieces) = <<>> THEN NonEmptyOf(Tail(pieces))
    ELSE <<Head(pieces)>> \o NonEmptyOf(Tail(pieces))

\* bufio.Scanner with ScanLines: the tokens that end in the buffered text
RECURSIVE ScanTokens(_)
ScanTokens(s) ==
    IF HasNewline(s) THEN <<BeforeNewline(s)>> \o ScanTokens(AfterNewline(s))
    ELSE <<>>

\* what the Scanner keeps for the next Read
RECURSIVE ScanRest(_)
ScanRest(s) == IF HasNewline(s) THEN ScanRest(AfterNewline(s)) ELSE s

\* one iteration of Client.RunStream's reader on the n bytes Read returned
readChunk(c, s, n) ==
    [c EXCEPT !.pipe[s] = SubSeq(@, n + 1, Len(@)),
              !.delivered[s] = @ \o NonEmptyOf(SplitChunk(SubSeq(c.pipe[s], 1, n)))]

\* one Read of RunKamalStream's Scanner and the Scans it feeds
scanChunk(c, s, n) ==
    [c EXCEPT !.pipe[s] = SubSeq(@, n + 1, Len(@)),
              !.buf[s] = ScanRest(@ \o SubSeq(c.pipe[s], 1, n)),
              !.delivered[s] = @ \o ScanTokens(c.buf[s] \o SubSeq(c.pipe[s], 1, n))]

\* Read returns the end of the stream: the Scanner hands out what is left
readEOF(c, s) ==
    [c EXCEPT !.done[s] = TRUE,
              !.buf[s] = <<>>,
              !.delivered[s] = IF c.buf[s] # <<>> THEN Append(@, c.buf[s]) ELSE @]

NewStream(fn) ==
    [fn |-> fn, exited |-> FALSE,
     written |-> <<(<<>>), (<<>>)>>, pipe |-> <<(<<>>), (<<>>)>>,
     buf |-> <<(<<>>), (<<>>)>>, done |-> <<FALSE, FALSE>>,
     delivered |-> <<(<<>>), (<<>>)>>]

InitStream ==
    /\ dpc = "stream"
    /\ containers = <<>>
    /\ apps = <<>>
    /\ detService = EmptyStr
    /\ detAll = {}
    /\ detResult = NoResult
    /\ gui = NoSession
    /\ call \in {NewStream(fn) : fn \in Streaming}

StreamStep(c) == dpc = "stream" /\ call' = c /\ UNCHANGED <<discVars, gui>>

\* the process writes one more character to one of its standard streams
ProcWrites ==
    /\ ~call.exited
    /\ \E s \in {Stdout, Stderr}, ch \in StreamChars :
          /\ Len(call.written[s]) < MaxWritten
          /\ StreamStep([call EXCEPT !.written[s] = Append(@, ch),
                                     !.pipe[s] = Append(@, ch)])

\* the process exits; its ends of the pipes are closed
ProcExits == ~call.exited /\ StreamStep([call EXCEPT !.exited = TRUE])

\* a reader goroutine's Read returns some of the bytes that are in the pipe
ReaderReads ==
    \E s \in {Stdout, Stderr} :
        /\ ~call.done[s]
        /\ \E n \in 1..ReadBuf :
              /\ n <= Len(call.pipe[s])
              /\ StreamStep(IF call.fn = "RunStream" THEN readChunk(call, s, n)
                            ELSE scanChunk(call, s, n))

\* a reader goroutine's Read returns the end of the stream
ReaderEOF ==
    \E s \in {Stdout, Stderr} :
        /\ ~call.done[s]
        /\ call.exited
        /\ call.pipe[s] = <<>>
        /\ StreamStep(readEOF(call, s))

NextStream == ProcWrites \/ ProcExits \/ ReaderReads \/ ReaderEOF

SpecStream == InitStream /\ [][NextStream]_vars

\* the complete lines of a text, in order: what lies between line starts and
\* the newlines that end them, and the unterminated rest once the text is over
LineStarts(t) == {1} \cup {i + 1 : i \in {j \in 1..Len(t) : t[j] = Newline}}

CompleteLines(t, over) ==
    LET ends(b) == {e \in b..Len(t) : t[e] = Newline}
        whole == {b \in LineStarts(t) : ends(b) # {} \/ (over /\ b <= Len(t))}
        lineAt(b) == IF ends(b) # {}
                     THEN SubSeq(t, b, (CHOOSE e \in ends(b) : \A f \in ends(b) : e <= f) - 1)
                     ELSE SubSeq(t, b, Len(t))
        nth(k) == CHOOSE b \in whole : Cardinality({a \in whole : a <= b}) = k
    IN [k \in 1..Cardinality(whole) |-> lineAt(nth(k))]

\* d picks lines of l, each at most once, in their order
RECURSIVE PicksInOrder(_, _)
PicksInOrder(d, l) ==
    IF d = <<>> THEN TRUE
    ELSE IF l = <<>> THEN FALSE
    ELSE IF Head(d) = Head(l) THEN PicksInOrder(Tail(d), Tail(l))
    ELSE PicksInOrder(d, Tail(l))

\* C24: the strings passed to onLine for one standard stream are complete
\* lines of what the process wrote to that stream, each line passed at most
\* once and in the order written: never a part of a line, never two lines
\* in one string. Stated of the call whose process has exited and whose
\* readers have read to the end, when every line written is known.
C24_WholeLinesInOrder ==
    (dpc = "stream" /\ call.exited /\ call.done = <<TRUE, TRUE>>) =>
        \A s \in {Stdout, Stderr} :
            PicksInOrder(call.delivered[s], CompleteLines(call.written[s], TRUE))

\* ========================================================================
\* The supervisor's fields and its mutexes, access by access
\* ========================================================================
\* One statement of a goroutine: lock or unlock of a mutex, read or write
\* of a field, the start of a goroutine, the remote call.
Ins(op, x, v) == [op |-> op, x |-> x, v |-> v]

\* cmdMu guards running, runningCmd and cmdStartTime, streamMu the
\* streaming flag (server mode); liveLogsMu guards liveLogsActive (project
\* mode)
MutexOf(field) == IF field = "streaming" THEN "stream" ELSE "cmd"

\* updateHeader (server mode), the header part of layout (project mode)
layoutProgram(mode) ==
    IF mode = "server"
    THEN <<Ins("lock", "stream", ""), Ins("read", "streaming", ""), Ins("unlock", "stream", ""),
           Ins("lock", "cmd", ""), Ins("read", "running", ""), Ins("read", "runningCmd", ""),
           Ins("read", "cmdStartTime", ""), Ins("unlock", "cmd", "")>>
    ELSE <<Ins("lock", "stream", ""), Ins("read", "streaming", ""), Ins("unlock", "stream", ""),
           Ins("read", "running", ""), Ins("read", "cmdStartTime", ""),
           Ins("read", "spinner", ""), Ins("read", "runningCmd", "")>>

\* restartContainer up to its go statement (server mode), runCommand up to
\* its go statement (project mode)
operationProgram(mode) ==
    IF mode = "server"
    THEN <<Ins("lock", "cmd", ""), Ins("write", "running", "true"),
           Ins("write", "runningCmd", "Restart"), Ins("write", "cmdStartTime", "now"),
           Ins("unlock", "cmd", ""), Ins("go", "worker", "")>>
    ELSE <<Ins("write", "running", "true"), Ins("write", "runningCmd", "name"),
           Ins("write", "cmdStartTime", "now"), Ins("write", "spinner", "set"),
           Ins("go", "worker", "")>>

\* the goroutine of restartContainer, of runCommand
workerProgram(mode) ==
    IF mode = "server"
    THEN <<Ins("call", "", ""), Ins("lock", "cmd", ""), Ins("write", "running", "false"),
           Ins("unlock", "cmd", "")>>
    ELSE <<Ins("call", "", ""), Ins("read", "cmdStartTime", ""), Ins("write", "spinner", "nil"),
           Ins("write", "running", "false"), Ins("write", "runningCmd", "")>>

\* viewContainerLogs with its stopLogStream, startLiveLogs, up to the go
\* statement
streamProgram(mode) ==
    IF mode = "server"
    THEN <<Ins("lock", "stream", ""), Ins("read", "streaming", ""), Ins("unlock", "stream", ""),
           Ins("lock", "stream", ""), Ins("write", "streaming", "true"),
           Ins("unlock", "stream", ""), Ins("go", "streamer", "")>>
    ELSE <<Ins("lock", "stream", ""), Ins("read", "streaming", ""),
           Ins("write", "streaming", "true"), Ins("unlock", "stream", ""),
           Ins("go", "streamer", "")>>

\* the goroutine of a stream after its call returned
streamerProgram(mode) ==
    <<Ins("call", "", ""), Ins("lock", "stream", ""), Ins("write", "streaming", "false"),
      Ins("unlock", "stream", "")>>

NoAccess == [by |-> "none", field |-> "none", write |-> FALSE, held |-> TRUE]
NoSnapshot == [running |-> "none", runningCmd |-> "none"]

NewLocks(mode) ==
    [mode |-> mode,
     val |-> [running |-> "false", runningCmd |-> "", cmdStartTime |-> "zero",
              spinner |-> "nil", streaming |-> "false"],
     held |-> [cmd |-> "free", stream |-> "free"],
     prog |-> [loop |-> <<>>, worker |-> <<>>, streamer |-> <<>>],
     pass |-> "none", snap |-> NoSnapshot, seen |-> NoSnapshot,
     access |-> NoAccess]

\* the statement at the head of goroutine t's program, executed
Exec(g, t) ==
    LET ins == Head(g.prog[t])
        g1 == [g EXCEPT !.prog[t] = Tail(@)]
        acc == [by |-> t, field |-> ins.x, write |-> ins.op = "write",
                held |-> g.held[MutexOf(ins.x)] = t]
    IN CASE ins.op = "lock" -> [g1 EXCEPT !.held[ins.x] = t]
         [] ins.op = "unlock" -> [g1 EXCEPT !.held[ins.x] = "free"]
         [] ins.op = "write" -> [g1 EXCEPT !.val[ins.x] = ins.v, !.access = acc]
         [] ins.op = "read" ->
                [g1 EXCEPT !.access = acc,
                           !.snap = IF t = "loop" /\ g.pass = "layout"
                                       /\ ins.x \in {"running", "runningCmd"}
                                    THEN [@ EXCEPT ![ins.x] = g.val[ins.x]] ELSE @]
         [] ins.op = "go" ->
                [g1 EXCEPT !.prog[ins.x] = IF ins.x = "worker" THEN workerProgram(g.mode)
                                           ELSE streamerProgram(g.mode)]
         [] OTHER -> g1

\* a goroutine can take its next statement unless it waits for a mutex
CanStep(g, t) ==
    /\ g.prog[t] # <<>>
    /\ Head(g.prog[t]).op = "lock" => g.held[Head(g.prog[t]).x] = "free"

InitLocks ==
    /\ dpc = "locks"
    /\ containers = <<>>
    /\ apps = <<>>
    /\ detService = EmptyStr
    /\ detAll = {}
    /\ detResult = NoResult
    /\ gui \in {NewLocks(mode) : mode \in {"server", "project"}}
    /\ call = NoCall

LocksStep(g) == dpc = "locks" /\ gui' = g /\ UNCHANGED <<discVars, call>>

\* the event loop takes up its next piece of work: a layout pass, or the
\* handler of a key that starts an operation or a stream
LoopLayout ==
    /\ gui.prog.loop = <<>>
    /\ LocksStep([gui EXCEPT !.prog.loop = layoutProgram(gui.mode), !.pass = "layout",
                             !.snap = NoSnapshot, !.seen = NoSnapshot])

LoopOperation ==
    /\ gui.prog.loop = <<>>
    /\ gui.prog.worker = <<>>
    /\ LocksStep([gui EXCEPT !.prog.loop = operationProgram(gui.mode), !.pass = "key",
                             !.seen = NoSnapshot])

LoopStream ==
    /\ gui.prog.loop = <<>>
    /\ gui.prog.streamer = <<>>
    /\ gui.val.streaming = "false"
    /\ LocksStep([gui EXCEPT !.prog.loop = streamProgram(gui.mode), !.pass = "key",
                             !.seen = NoSnapshot])

\* the event loop executes a statement; the last statement of a layout
\* pass leaves the snapshot the header is drawn from
LoopStep ==
    /\ CanStep(gui, "loop")
    /\ LET g == Exec(gui, "loop")
       IN LocksStep(IF g.prog.loop = <<>> /\ g.pass = "layout"
                    THEN [g EXCEPT !.seen = g.snap] ELSE g)

WorkerStep == CanStep(gui, "worker") /\ LocksStep(Exec(gui, "worker"))

StreamerStep == CanStep(gui, "streamer") /\ LocksStep(Exec(gui, "streamer"))

NextLocks ==
    LoopLayout \/ LoopOperation \/ LoopStream \/ LoopStep \/ WorkerStep \/ StreamerStep

SpecLocks == InitLocks /\ [][NextLocks]_vars

\* C26: every read and write of the supervisor's running flag, label,
\* start time, spinner and streaming flag is made by a goroutine that
\* holds the mutex of that field, and the snapshot a layout pass draws the
\* header from is a state the supervisor was in: running with a label, or
\* not running.
C26_SupervisorUnderMutex ==
    dpc = "locks" =>
        /\ gui.access.held
        /\ gui.seen.running = "true" => gui.seen.runningCmd # ""

\* ========================================================================
\* Streams started, stopped and started again
\* ========================================================================
MaxLive == 2        \* stream goroutines alive at once

\* a server session on the container list of one of its apps, a project
\* session on one of the menus that stream logs
InitStreams ==
    /\ dpc = "streams"
    /\ containers = <<>>
    /\ apps = <<>>
    /\ detService = EmptyStr
    /\ detAll = {}
    /\ detResult = NoResult
    /\ call = NoCall
    /\ gui \in {Layout([ServerNew(a) EXCEPT !.screen = "ContainerSelect",
                                            !.prevScreen = "AppMenu",
                                            !.selectedApp = i]) :
                   a \in AppLists \ {<<>>}, i \in 0..1}
               \cup {Layout([New(d) EXCEPT !.screen = sc, !.selectedApp = i]) :
                        d \in DestLists \ {<<>>}, sc \in {"App", "Proxy", "Accessory"},
                        i \in 0..1}

StreamsStep(g) ==
    /\ dpc = "streams"
    /\ BagCardinality(g.streams) <= MaxLive
    /\ gui' = Layout(g)
    /\ UNCHANGED <<discVars, call>>

\* Enter on a container (viewContainerLogs), 'Live: App logs' (startLiveLogs)
StartStream ==
    /\ Alive
    /\ StreamsStep(IF ServerMode(gui) THEN viewContainerLogs(gui) ELSE startLiveLogs(gui))

\* proxy logs of the server's Proxy menu
StartProxyStream == Alive /\ ServerMode(gui) /\ StreamsStep(viewProxyLogs(gui))

\* Esc while a stream is flagged: stopLogStream, stopLiveLogs
StopStream ==
    /\ Alive
    /\ StreamsStep(IF ServerMode(gui) THEN stopLogStream(gui) ELSE stopLiveLogs(gui))

NextStreams ==
    \/ StartStream \/ StartProxyStream \/ StopStream
    \/ StreamLookup \/ StreamLine \/ StreamReturn

SpecStreams == InitStreams /\ [][NextStreams]_vars

\* the streaming flag of the mode
StreamFlag(g) == IF ServerMode(g) THEN g.streamingLogs ELSE g.liveLogsActive

\* C28: whenever a stream goroutine is still running on a stop channel that
\* has not been closed, the streaming flag is true, so that the stream can
\* be stopped; a goroutine of an earlier stream that exits does not take
\* the flag of a later stream down.
C28_LiveStreamIsFlagged ==
    (dpc = "streams" /\ Alive) =>
        ((\E st \in BagToSet(gui.streams) : st.pc = "stream" /\ StopCh(gui, st) = "open")
            => StreamFlag(gui))

\* ========================================================================
\* The Application list while a refresh replaces it
\* ========================================================================
\* the lists DiscoverApps can return: the host with none, two or all of its
\* containers
SwapLists == {Discovered(SubSeq(HostContainers, 1, n)) : n \in {0, 2, 4}}

NoPass == [pc |-> "idle", lenOf |-> <<>>, indexOf |-> <<>>, done |-> FALSE]

InitSwap ==
    /\ dpc = "swap"
    /\ containers = <<>>
    /\ apps = <<>>
    /\ detService = EmptyStr
    /\ detAll = {}
    /\ detResult = NoResult
    /\ call = NoCall
    /\ gui \in {[ServerNew(old) EXCEPT !.screen = "AppMenu", !.selectedApp = i]
                   @@ [refresh |-> [pc |-> "none", found |-> <<>>, local |-> <<>>],
                       pass |-> NoPass] :
                   old \in SwapLists, i \in 0..1}

SwapStep(g) == dpc = "swap" /\ gui' = g /\ UNCHANGED <<discVars, call>>

\* 'r': the goroutine of keyRefresh starts, DiscoverApps is under way
RefreshStarts ==
    /\ ~gui.panicked
    /\ gui.refresh.pc = "none"
    /\ \E new \in SwapLists :
          SwapStep([gui EXCEPT !.refresh = [pc |-> "discover", found |-> new, local |-> <<>>]])

\* DiscoverApps appends one more app to the list it builds (groupContainers'
\* flatten loop); the list is local to the goroutine
RefreshBuilds ==
    /\ ~gui.panicked
    /\ gui.refresh.pc = "discover"
    /\ Len(gui.refresh.local) < Len(gui.refresh.found)
    /\ SwapStep([gui EXCEPT !.refresh.local =
                                Append(@, gui.refresh.found[Len(@) + 1])])

\* DiscoverApps has returned: gui.apps = apps
RefreshAssigns ==
    /\ ~gui.panicked
    /\ gui.refresh.pc = "discover"
    /\ Len(gui.refresh.local) = Len(gui.refresh.found)
    /\ SwapStep([gui EXCEPT !.apps = gui.refresh.local, !.refresh.pc = "none"])

\* renderAppMenu, first statement: if gui.selectedApp >= len(gui.apps) return
PassChecksLen ==
    /\ ~gui.panicked
    /\ gui.pass.pc = "idle"
    /\ SwapStep([gui EXCEPT !.pass =
                     IF gui.selectedApp >= Len(gui.apps)
                     THEN [NoPass EXCEPT !.lenOf = gui.apps]
                     ELSE [pc |-> "checked", lenOf |-> gui.apps, indexOf |-> <<>>,
                           done |-> FALSE]])

\* renderAppMenu, second statement: app := gui.apps[gui.selectedApp]
PassIndexes ==
    /\ ~gui.panicked
    /\ gui.pass.pc = "checked"
    /\ SwapStep(IF gui.selectedApp >= Len(gui.apps)
                THEN [gui EXCEPT !.panicked = TRUE, !.pass.indexOf = gui.apps]
                ELSE [gui EXCEPT !.pass = [pc |-> "idle", lenOf |-> @.lenOf,
                                           indexOf |-> gui.apps, done |-> TRUE]])

NextSwap ==
    RefreshStarts \/ RefreshBuilds \/ RefreshAssigns \/ PassChecksLen \/ PassIndexes

SpecSwap == InitSwap /\ [][NextSwap]_vars

\* C30: a pass of the render loop over the Application list sees one list,
\* the old one or the new one: the list it took the length of is the list it
\* indexes, and it never indexes past the end.
C30_PassSeesOneList ==
    dpc = "swap" =>
        /\ ~gui.panicked
        /\ gui.pass.done => gui.pass.indexOf = gui.pass.lenOf

\* C31: a refresh that changes the Application list, growing or shrinking
\* it, leaves the selected-application index below the length of the new
\* list when that list is not empty (the index was below the length of the
\* old list before the refresh).
C31_SelectedAppWithinList ==
    [][(/\ dpc = "swap"
        /\ SelectedAppInRange(gui)
        /\ gui'.apps # gui.apps
        /\ gui'.apps # <<>>)
          => gui'.selectedApp < Len(gui'.apps)]_vars

\* ========================================================================
\* The log buffer's mutex (server mode), statement by statement
\* ========================================================================
\* gui.logLines is followed by its length, gui.logScroll by its value; a
\* program is the sequence of the statements of a function that lock or
\* unlock logMu or touch one of the two fields.
appendLogProgram ==
    <<Ins("lock", "logMu", ""), Ins("write", "logLines", "append"),
      Ins("write", "logLines", "trim"), Ins("write", "logScroll", "bottom"),
      Ins("unlock", "logMu", "")>>

renderLogProgram ==
    <<Ins("lock", "logMu", ""), Ins("read", "logLines", "copy"), Ins("unlock", "logMu", ""),
      Ins("return", "", "empty"), Ins("write", "logScroll", "clampHigh"),
      Ins("write", "logScroll", "clampLow"), Ins("read", "logScroll", "start")>>

keyClearLogProgram ==
    <<Ins("lock", "logMu", ""), Ins("write", "logLines", "clear"), Ins("unlock", "logMu", ""),
      Ins("write", "logScroll", "zero")>>

keyScrollDownProgram == <<Ins("write", "logScroll", "down")>>

keyScrollUpProgram == <<Ins("write", "logScroll", "up")>>

NewLogMu ==
    [mode |-> "server", logLines |-> 0, logScroll |-> 0, logMu |-> "free",
     prog |-> [loop |-> <<>>, worker |-> <<>>],
     lines |-> 0, start |-> 0, appended |-> 0, access |-> NoAccess]

\* the statement at the head of goroutine t's program, executed
logExec(g, t) ==
    LET ins == Head(g.prog[t])
        g1 == [g EXCEPT !.prog[t] = Tail(@)]
        g2 == [g1 EXCEPT !.access = [by |-> t, field |-> ins.x, write |-> ins.op = "write",
                                     held |-> g.logMu = t]]
        maxScroll == IF g.lines - ViewHeight < 0 THEN 0 ELSE g.lines - ViewHeight
    IN CASE ins.op = "lock" -> [g1 EXCEPT !.logMu = t]
         [] ins.op = "unlock" -> [g1 EXCEPT !.logMu = "free"]
         [] ins.op = "return" -> IF g.lines = 0 THEN [g1 EXCEPT !.prog[t] = <<>>] ELSE g1
         [] ins.v = "append" -> [g2 EXCEPT !.logLines = @ + 1, !.appended = @ + 1]
         [] ins.v = "trim" -> [g2 EXCEPT !.logLines = IF @ > LogBufCap THEN LogBufCap ELSE @]
         [] ins.v = "bottom" -> [g2 EXCEPT !.logScroll = g.logLines]
         [] ins.v = "copy" -> [g2 EXCEPT !.lines = g.logLines]
         [] ins.v = "clampHigh" ->
                [g2 EXCEPT !.logScroll = IF @ > maxScroll THEN maxScroll ELSE @]
         [] ins.v = "clampLow" -> [g2 EXCEPT !.logScroll = IF @ < 0 THEN 0 ELSE @]
         [] ins.v = "start" -> [g2 EXCEPT !.start = g.logScroll]
         [] ins.v = "clear" -> [g2 EXCEPT !.logLines = 0]
         [] ins.v = "zero" -> [g2 EXCEPT !.logScroll = 0]
         [] ins.v = "down" -> [g2 EXCEPT !.logScroll = keyScrollDown(g).logScroll]
         [] ins.v = "up" -> [g2 EXCEPT !.logScroll = keyScrollUp(g).logScroll]

\* a goroutine can take its next statement unless it waits for logMu
logCanStep(g, t) ==
    /\ g.prog[t] # <<>>
    /\ Head(g.prog[t]).op = "lock" => g.logMu = "free"

InitLogMu ==
    /\ dpc = "logmu"
    /\ containers = <<>>
    /\ apps = <<>>
    /\ detService = EmptyStr
    /\ detAll = {}
    /\ detResult = NoResult
    /\ gui = NewLogMu
    /\ call = NoCall

LogMuStep(g) == dpc = "logmu" /\ gui' = g /\ UNCHANGED <<discVars, call>>

\* the event loop takes up its next piece of work: the log pane of a layout
\* pass, or the handler of 'c', PgDn or PgUp
LoopRenderLog ==
    gui.prog.loop = <<>> /\ LogMuStep([gui EXCEPT !.prog.loop = renderLogProgram])

LoopClearLog ==
    gui.prog.loop = <<>> /\ LogMuStep([gui EXCEPT !.prog.loop = keyClearLogProgram])

LoopScrollDown ==
    /\ gui.prog.loop = <<>>
    /\ gui.logScroll <= LogBufCap
    /\ LogMuStep([gui EXCEPT !.prog.loop = keyScrollDownProgram])

LoopScrollUp ==
    gui.prog.loop = <<>> /\ LogMuStep([gui EXCEPT !.prog.loop = keyScrollUpProgram])

LoopLogStep == logCanStep(gui, "loop") /\ LogMuStep(logExec(gui, "loop"))

\* a goroutine (a worker's logInfo, a stream's onLine) calls appendLog
WorkerAppendLog ==
    /\ gui.prog.worker = <<>>
    /\ gui.appended < MaxAppended
    /\ LogMuStep([gui EXCEPT !.prog.worker = appendLogProgram])

WorkerLogStep == logCanStep(gui, "worker") /\ LogMuStep(logExec(gui, "worker"))

NextLogMu ==
    \/ LoopRenderLog \/ LoopClearLog \/ LoopScrollDown \/ LoopScrollUp \/ LoopLogStep
    \/ WorkerAppendLog \/ WorkerLogStep

SpecLogMu == InitLogMu /\ [][NextLogMu]_vars

\* C34: every read and write of the log buffer's lines and of its scroll
\* offset, by the render loop, the key handlers and the goroutines, is made
\* by a goroutine that holds logMu (the copy renderLog draws from included).
C34_LogBufferUnderMutex ==
    dpc = "logmu" => gui.access.held

\* ========================================================================
\* The lines of one operation on their way to the log buffer
\* ========================================================================
\* A streaming operation whose process writes whole lines, numbered in the
\* order it emits them, each to its standard output or to its standard
\* error; the two reader goroutines of the executor pass them to onLine,
\* which is appendLog; another operation appends its own lines meanwhile.
MaxEmitted == 3     \* lines one operation emits

NewEmit(fn) ==
    [fn |-> fn, emitted |-> 0, pipe |-> <<(<<>>), (<<>>)>>, other |-> 0]

InitOrder ==
    /\ dpc = "order"
    /\ containers = <<>>
    /\ apps = <<>>
    /\ detService = EmptyStr
    /\ detAll = {}
    /\ detResult = NoResult
    /\ gui = [mode |-> "server", logLines |-> <<>>]
    /\ call \in {NewEmit(fn) : fn \in Streaming}

\* the process writes its next line to one of its standard streams
OpEmits ==
    /\ dpc = "order"
    /\ call.emitted < MaxEmitted
    /\ \E s \in {Stdout, Stderr} :
          call' = [call EXCEPT !.emitted = @ + 1, !.pipe[s] = Append(@, call.emitted + 1)]
    /\ UNCHANGED <<discVars, gui>>

\* the reader goroutine of a standard stream hands its next line to onLine:
\* gui.appendLog([]string{line})
ReaderOnLine ==
    /\ dpc = "order"
    /\ \E s \in {Stdout, Stderr} :
          /\ call.pipe[s] # <<>>
          /\ call' = [call EXCEPT !.pipe[s] = Tail(@)]
          /\ gui' = [gui EXCEPT !.logLines =
                        AppendTrim(@, <<[op |-> "stream", n |-> Head(call.pipe[s])]>>,
                                   LogBufCap)]
    /\ UNCHANGED discVars

\* the goroutine of another operation appends its next line
OtherAppends ==
    /\ dpc = "order"
    /\ call.other < MaxEmitted
    /\ call' = [call EXCEPT !.other = @ + 1]
    /\ gui' = [gui EXCEPT !.logLines =
                  AppendTrim(@, <<[op |-> "other", n |-> call.other + 1]>>, LogBufCap)]
    /\ UNCHANGED discVars

NextOrder == OpEmits \/ ReaderOnLine \/ OtherAppends

SpecOrder == InitOrder /\ [][NextOrder]_vars

FnFailed ==
    /\ gui.pc = "fn"
    /\ \/ gui.kind = "runCommand" /\ gui'.pc = "defer"
       \/ gui.kind # "runCommand" /\ gui' = restartReturned(gui, TRUE)

NewestLine(g) == g.logLines[Len(g.logLines)]

\* C39: when the function of an operation fails, the worker appends one
\* error line to the log buffer and goes on to its defer (directly, or after
\* the remaining containers of restartApp); the defer clears running and
\* leaves the worker idle, so that an idle session is never left running
\* and every failure ends in the buffer, never in the event loop.
C39_FailureLoggedAndCleared ==
    /\ [](dpc = "log" => (gui.pc = "idle" => ~gui.running))
    /\ [][(dpc = "log" /\ FnFailed) =>
             /\ gui'.appended = gui.appended + 1
             /\ gui'.logLines # <<>>
             /\ NewestLine(gui').level = "error"
             /\ NewestLine(gui').duration = NoDuration
             /\ gui'.running
             /\ gui'.pc \in {"fn", "completion", "defer"}]_vars
    /\ [][(dpc = "log" /\ gui.pc = "defer" /\ gui'.pc # "defer") =>
             (gui'.pc = "idle" /\ ~gui'.running /\ gui'.logLines = gui.logLines)]_vars

\* a project session idle again after a command whose function failed: the
\* newest line is the error line, which carries no duration
C39_Witness ==
    /\ dpc = "log" /\ gui.kind = "runCommand" /\ gui.pc = "idle" /\ ~gui.running
    /\ gui.logLines # <<>>
    /\ NewestLine(gui).level = "error"
    /\ NewestLine(gui).duration = NoDuration

\* ========================================================================
\* A stream's lines, the redraw throttle and the tickers
\* ========================================================================
\* The onLine closure of viewContainerLogs, viewProxyLogs (server mode) and
\* startLiveLogs (project mode), called by the executor's reader goroutines,
\* and the other goroutines that ask for a redraw: the spinner of server
\* mode, the status poll of project mode. Time is in milliseconds. A line of
\* the buffer is its origin and, for a line of the stream, its number in the
\* order of delivery. gui.stale tells that a line was appended and no
\* redraw was asked for since.
Throttle == 80      \* throttle := 80 * time.Millisecond
StepMs == 40        \* the clock advances in steps of this many milliseconds
MaxClock == 160     \* the clock is followed up to here
MaxDelivered == 3   \* lines the stream delivers

NewThrottle(mode, dest) ==
    [mode |-> mode, dest |-> dest, logLines |-> <<>>, delivered |-> 0,
     now |-> 0, lastUpdate |-> 0, prevUpdate |-> 0, streamOn |-> TRUE,
     statusPc |-> "idle", stale |-> FALSE, suppressed |-> FALSE]

\* gui.g.Update(func(*gocui.Gui) error { return nil })
Update(g) == [g EXCEPT !.stale = FALSE]

streamAppend(g, rec) ==
    [g EXCEPT !.logLines = AppendTrim(@, <<rec>>, LogBufCap), !.stale = TRUE]

\* an onLine that appends only the lines it asks a redraw for
onLineThrottledAppend(g, line, seen) ==
    IF g.now - seen < Throttle THEN [g EXCEPT !.suppressed = TRUE]
    ELSE Update([streamAppend(g, [op |-> "stream", n |-> line]) EXCEPT
                    !.prevUpdate = g.lastUpdate, !.lastUpdate = g.now,
                    !.suppressed = FALSE])

\* onLine: appendLog, then the throttle. seen is the value the closure reads
\* from lastUpdate, which the two reader goroutines share without a lock.
onLine(g, line, seen) ==
    LET g1 == streamAppend(g, [op |-> "stream", n |-> line])
    IN IF g.now - seen < Throttle THEN [g1 EXCEPT !.suppressed = TRUE]
       ELSE Update([g1 EXCEPT !.prevUpdate = g.lastUpdate, !.lastUpdate = g.now,
                              !.suppressed = FALSE])

\* the stream goroutine after the executor returned: server mode logs how
\* the stream ended, project mode asks for a redraw
streamEnded(g) ==
    IF ServerMode(g) THEN streamAppend([g EXCEPT !.streamOn = FALSE], [op |-> "status", n |-> 0])
    ELSE Update([g EXCEPT !.streamOn = FALSE])

InitThrottle ==
    /\ dpc = "throttle"
    /\ containers = <<>>
    /\ apps = <<>>
    /\ detService = EmptyStr
    /\ detAll = {}
    /\ detResult = NoResult
    /\ call = NoCall
    /\ gui \in {NewThrottle("server", FALSE)}
                 \cup {NewThrottle("project", d) : d \in BOOLEAN}

ThrottleStep(g) == dpc = "throttle" /\ gui' = g /\ UNCHANGED <<discVars, call>>

ClockTick ==
    /\ gui.now < MaxClock
    /\ ThrottleStep([gui EXCEPT !.now = @ + StepMs])

\* a reader goroutine delivers the stream's next line
StreamOnLine ==
    /\ gui.streamOn
    /\ gui.delivered < MaxDelivered
    /\ \E seen \in {gui.lastUpdate, gui.prevUpdate} :
          ThrottleStep([onLine(gui, gui.delivered + 1, seen) EXCEPT !.delivered = @ + 1])

StreamEnds == gui.streamOn /\ ThrottleStep(streamEnded(gui))

\* server mode: the spinner's ticker fires (every 100 ms, from NewServerGUI
\* on) and its update function asks for a redraw
SpinnerTick == ServerMode(gui) /\ ThrottleStep(Update(gui))

\* project mode: the status ticker fires and its goroutine calls
\* refreshStatus, which asks for a redraw at once without a destination and
\* runs AppVersion and AppContainers first with one
StatusTick ==
    /\ ~ServerMode(gui)
    /\ gui.statusPc = "idle"
    /\ ThrottleStep(IF gui.dest THEN [gui EXCEPT !.statusPc = "remote"] ELSE Update(gui))

\* the two remote commands of refreshStatus have returned
StatusReturns ==
    /\ gui.statusPc = "remote"
    /\ ThrottleStep(Update([gui EXCEPT !.statusPc = "idle"]))

NextThrottle ==
    ClockTick \/ StreamOnLine \/ StreamEnds \/ SpinnerTick \/ StatusTick \/ StatusReturns

SpecThrottle == InitThrottle /\ [][NextThrottle]_vars

\* Goroutines that can run do run and tickers fire; nothing makes a remote
\* command return, the stream deliver or end, or the operator press a key.
SpecRedraw ==
    /\ InitThrottle /\ [][NextThrottle]_vars
    /\ WF_vars(SpinnerTick) /\ WF_vars(StatusTick)

IsStreamLine(l) == l.op = "stream"

\* C37: every line a stream delivers is in the log buffer, in the order of
\* delivery, whether or not the throttle let its redraw request through;
\* only the trim to the buffer's capacity takes lines away, oldest first.
C37_AppendNeverThrottled ==
    dpc = "throttle" =>
        LET got == SelectSeq(gui.logLines, IsStreamLine)
            others == Len(gui.logLines) - Len(got)
            room == LogBufCap - others
            k == IF gui.delivered < room THEN gui.delivered ELSE room
        IN /\ Len(got) = k
           /\ \A i \in 1..k : got[i].n = gui.delivered - k + i

\* a line delivered inside the throttle window: no redraw was asked for it
\* and it is the newest line of the buffer
C37_Witness ==
    /\ dpc = "throttle"
    /\ gui.suppressed
    /\ gui.stale
    /\ gui.delivered >= 2
    /\ gui.logLines[Len(gui.logLines)] = [op |-> "stream", n |-> gui.delivered]

\* C38: every line a stream appends is eventually followed by a redraw
\* request.
C38_AppendLeadsToRedraw ==
    (dpc = "throttle" /\ gui.stale) ~> ~gui.stale

====
